---- MODULE Spec2Model ----
(***************************************************************************)
(* Progressify: the authentication / CSRF request gate, the auth endpoints *)
(* and the goal store, as a state machine.                                 *)
(*                                                                         *)
(* Time is Date.now() in milliseconds, counted from a small epoch so that  *)
(* every reading fits TLC's integers.  Ids are Date.now().toString(): the  *)
(* decimal string of a reading is modelled by the reading itself.          *)
(* The environment is configured: JWT_SECRET and CSRF_SECRET are set and   *)
(* differ from each other.                                                 *)
(***************************************************************************)
EXTENDS Integers, Sequences, FiniteSets, TLC

VARIABLES
    users,          \* lib/auth.ts `users` array
    goals,          \* lib/auth.ts `goals` array
    requestCounts,  \* lib/middleware.ts `requestCounts` map
    now,            \* Date.now()
    jar,            \* what each client holds: the cookies of its last auth response
    req,            \* the request being served (NoReq when idle)
    pc,             \* where the served request stands
    resp,           \* the response produced for the served request
    dispatched,     \* how many times the wrapped handler ran for the served request
    pending         \* handlers waiting at an `await` between their read of a
                    \* store and their write to it, each with what it read

vars == <<users, goals, requestCounts, now, jar, req, pc, resp, dispatched, pending>>

-----------------------------------------------------------------------------
(* Bounds of the model *)

\* Date.now() when the server process starts (ms).
StartTime == 1000500
\* Users the store may hold (the seeded one included).
MaxUsers == 3
\* Goals the store may hold (the two seeded ones included).
MaxGoals == 3
\* Update handlers that may wait for their request body at one time.
MaxPending == 2

(* Program constants *)

\* expiresIn: "3d" of the session token, in seconds.
SESSION_TTL_S == 259200
\* 3 * 24 * 60 * 60 * 1000 of the anti-forgery token, in milliseconds.
CSRF_TTL_MS == 259200000
\* login: RATE_LIMIT_SETTING
LOGIN_MAX_REQUESTS == 5
LOGIN_WINDOW_MS == 300000
\* reset-password: RATE_LIMIT_SETTING
RESET_MAX_REQUESTS == 3
RESET_WINDOW_MS == 1800000

-----------------------------------------------------------------------------
(* JSON values of a request body: undefined (field absent), a number       *)
(* (n, or n + 1/2 when half) or a string.                                  *)

Undef == [t |-> "undefined", n |-> 0, half |-> FALSE, s |-> ""]
Num(k) == [t |-> "number", n |-> k, half |-> FALSE, s |-> ""]
NumHalf(k) == [t |-> "number", n |-> k, half |-> TRUE, s |-> ""]
Str(x) == [t |-> "string", n |-> 0, half |-> FALSE, s |-> x]

\* !v
Falsy(v) ==
    \/ v.t = "undefined"
    \/ v.t = "number" /\ v.n = 0 /\ ~v.half
    \/ v.t = "string" /\ v.s = ""

\* Number.isInteger(v), for a number v
IsInteger(v) == v.t = "number" /\ ~v.half

\* v < k and v > k for an integer k (JavaScript's comparison of a number;
\* a string here is never numeric, so it compares false both ways)
LessThan(v, k) == v.t = "number" /\ v.n < k
GreaterThan(v, k) == v.t = "number" /\ (v.n > k \/ (v.n = k /\ v.half))
\* v < w and v > w for two values
Less(v, w) ==
    /\ v.t = "number" /\ w.t = "number"
    /\ \/ v.n < w.n
       \/ v.n = w.n /\ ~v.half /\ w.half
Greater(v, w) == Less(w, v)

-----------------------------------------------------------------------------
(* Strings: the operations the handlers apply, on the strings the model    *)
(* feeds them.                                                             *)

X10 == "xxxxxxxxxx"
X100 == X10 \o X10 \o X10 \o X10 \o X10 \o X10 \o X10 \o X10 \o X10 \o X10
\* a title of 101 characters
LongTitle == X100 \o "x"

\* String.prototype.trim
Trim(s) ==
    CASE s = "  Run 5k  " -> "Run 5k"
      [] s = "   " -> ""
      [] s = " demo@example.com " -> "demo@example.com"
      [] OTHER -> s

\* String.prototype.toLowerCase
ToLowerCase(s) ==
    CASE s = "Demo@Example.com" -> "demo@example.com"
      [] s = "Ann@Example.com" -> "ann@example.com"
      [] OTHER -> s

\* /^[^\s@]+@[^\s@]+\.[^\s@]+$/.test(s)
EmailRegexTest(s) ==
    s \in {"demo@example.com", "Demo@Example.com", "ann@example.com",
           "Ann@Example.com", "ghost@example.com"}

\* /^#([A-Fa-f0-9]{6}|[A-Fa-f0-9]{3})$/.test(s)
HexColorRegexTest(s) == s \in {"#3B82F6", "#10B981", "#fff"}

\* /[a-zA-Z]/.test(s) and /\d/.test(s)
HasLetter(s) == s \in {"password", "secret1", "ab1", "hunter2"}
HasNumber(s) == s \in {"secret1", "ab1", "123456", "hunter2"}

-----------------------------------------------------------------------------
(* Tokens.  A JWT is its payload and the key that signed it; a token with  *)
(* key "forged" verifies under no secret.  A session token has no `token`  *)
(* claim (modelled as ""), and its exp is in seconds; the anti-forgery     *)
(* token's exp is the millisecond value the code puts there.               *)

NoToken == [key |-> "none", userId |-> 0, token |-> "", iat |-> 0, exp |-> 0]

\* jwt.sign(payload, secret [, {expiresIn}]): iat is the reading in seconds
JwtSign(secret, userId, nonce, exp, t) ==
    [key |-> secret, userId |-> userId, token |-> nonce, iat |-> t \div 1000, exp |-> exp]

\* jwt.verify(token, secret) does not throw: the signature is the secret's,
\* and the exp claim, read as seconds, is still ahead
JwtVerify(tok, secret, t) ==
    /\ tok.key = secret
    /\ (t \div 1000) < tok.exp

\* faulty variant: the lifetime given in milliseconds where seconds are read
generateToken_LongLived(userId, t) ==
    JwtSign("JWT_SECRET", userId, "", (t \div 1000) + CSRF_TTL_MS, t)

\* authUtils.generateToken
generateToken(userId, t) ==
    JwtSign("JWT_SECRET", userId, "", (t \div 1000) + SESSION_TTL_S, t)

\* authUtils.verifyToken: the payload, or null (FALSE here) when verify throws
verifyToken(tok, t) == JwtVerify(tok, "JWT_SECRET", t)

\* generateRandomToken: 32 random characters
Nonces == {"nonceA"}

\* faulty variant: signed with the session secret
csrf_generateToken_SessionSecret(userId, nonce, t) ==
    JwtSign("JWT_SECRET", userId, nonce, t + CSRF_TTL_MS, t)

\* csrf.generateToken
csrf_generateToken(userId, nonce, t) ==
    JwtSign("CSRF_SECRET", userId, nonce, t + CSRF_TTL_MS, t)

\* faulty variant: the token is not compared with the session's user
csrf_verifyToken_AnyUser(tok, userId, t) ==
    /\ JwtVerify(tok, "CSRF_SECRET", t)
    /\ tok.exp > t
    /\ tok.token # ""

\* faulty variant: of the tokens issued for a user only the latest passes
csrf_verifyToken_LatestOnly(tok, userId, t) ==
    /\ JwtVerify(tok, "CSRF_SECRET", t)
    /\ tok.userId = userId
    /\ tok.exp > t
    /\ tok.token # ""
    /\ \A c \in DOMAIN jar : jar[c].csrf.userId = userId => jar[c].csrf.iat <= tok.iat

\* csrf.verifyToken
csrf_verifyToken(tok, userId, t) ==
    /\ JwtVerify(tok, "CSRF_SECRET", t)
    /\ tok.userId = userId
    /\ tok.exp > t
    /\ tok.token # ""
    /\ Len(tok.token) > 0

\* faulty variant: every method is protected
requiresCSRFProtection_All(method) == method \in {"GET", "HEAD", "POST", "PUT", "DELETE", "PATCH"}

\* csrf.requiresCSRFProtection
requiresCSRFProtection(method) == method \in {"POST", "PUT", "DELETE", "PATCH"}

-----------------------------------------------------------------------------
(* The stores *)

\* bcrypt.hash(password, 10): what comparePassword later recognises
hashPassword(password) == [alg |-> "bcrypt", of |-> password]

\* faulty variant: any password matches
comparePassword_Any(password, hashedPassword) == hashedPassword.alg = "bcrypt"

\* bcrypt.compare(password, hashedPassword)
comparePassword(password, hashedPassword) ==
    hashedPassword = [alg |-> "bcrypt", of |-> password]

NoUser == [id |-> 0, email |-> "", password |-> hashPassword(""), createdAt |-> 0]

\* the seeded `users` array
SeedUsers ==
    << [id |-> 1, email |-> "demo@example.com",
        password |-> hashPassword("password"), createdAt |-> StartTime] >>

NoGoal ==
    [id |-> 0, userId |-> 0, title |-> Undef, description |-> Undef,
     totalSteps |-> Undef, completedSteps |-> Undef, color |-> Undef,
     createdAt |-> 0]

\* the seeded `goals` array
SeedGoals ==
    << [id |-> 1, userId |-> 1, title |-> Str("Read 30 Books This Year"),
        description |-> Str("Complete 30 books to expand knowledge"),
        totalSteps |-> Num(30), completedSteps |-> Num(8),
        color |-> Str("#3B82F6"), createdAt |-> StartTime],
       [id |-> 2, userId |-> 1, title |-> Str("Daily Exercise"),
        description |-> Str("100 days of consistent exercise"),
        totalSteps |-> Num(100), completedSteps |-> Num(23),
        color |-> Str("#10B981"), createdAt |-> StartTime] >>

\* Array.prototype.findIndex over a store, for the element whose field f is v
\* (0 stands for JavaScript's -1)
IndexById(store, v) ==
    IF \E i \in 1..Len(store) : store[i].id = v
    THEN CHOOSE i \in 1..Len(store) :
            /\ store[i].id = v
            /\ \A j \in 1..(i - 1) : store[j].id # v
    ELSE 0

\* authUtils.getUserByEmail
getUserByEmail(us, email) ==
    IF \E i \in 1..Len(us) : us[i].email = email
    THEN us[CHOOSE i \in 1..Len(us) :
                /\ us[i].email = email
                /\ \A j \in 1..(i - 1) : us[j].email # email]
    ELSE NoUser

\* faulty variant: the first stored user, whatever the id
getUserById_First(us, id) ==
    IF Len(us) = 0 THEN NoUser ELSE us[1]

\* authUtils.getUserById
getUserById(us, id) ==
    IF IndexById(us, id) = 0 THEN NoUser ELSE us[IndexById(us, id)]

\* authUtils.createUser: the store with the new user pushed
createUser(us, email, password, t) ==
    Append(us, [id |-> t, email |-> email,
                password |-> hashPassword(password), createdAt |-> t])

\* authUtils.updateUserPassword: the store after the call
updateUserPassword(us, userId, newPassword) ==
    IF IndexById(us, userId) # 0
    THEN [us EXCEPT ![IndexById(us, userId)].password = hashPassword(newPassword)]
    ELSE us

\* faulty variant: every stored goal, whoever owns it
getGoalsByUserId_All(gs, userId) == gs

\* goalUtils.getGoalsByUserId
getGoalsByUserId(gs, userId) == SelectSeq(gs, LAMBDA g : g.userId = userId)

\* goalUtils.getGoalById
getGoalById(gs, id) ==
    IF IndexById(gs, id) = 0 THEN NoGoal ELSE gs[IndexById(gs, id)]

\* goalUtils.createGoal: the new goal (`x || d` keeps x unless it is falsy)
createGoal(userId, goalData, t) ==
    [id |-> t, userId |-> userId,
     title |-> IF Falsy(goalData.title) THEN Str("") ELSE goalData.title,
     description |-> IF Falsy(goalData.description) THEN Str("") ELSE goalData.description,
     totalSteps |-> IF Falsy(goalData.totalSteps) THEN Num(1) ELSE goalData.totalSteps,
     color |-> IF Falsy(goalData.color) THEN Str("#3B82F6") ELSE goalData.color,
     completedSteps |-> Num(0),
     createdAt |-> t]

\* { ...goal, ...updates }: a field of updates that is present replaces the goal's
Spread(goal, updates) ==
    [id |-> IF updates.id # 0 THEN updates.id ELSE goal.id,
     userId |-> IF updates.userId # 0 THEN updates.userId ELSE goal.userId,
     title |-> IF updates.title # Undef THEN updates.title ELSE goal.title,
     description |->
        IF updates.description # Undef THEN updates.description ELSE goal.description,
     totalSteps |->
        IF updates.totalSteps # Undef THEN updates.totalSteps ELSE goal.totalSteps,
     completedSteps |->
        IF updates.completedSteps # Undef THEN updates.completedSteps
        ELSE goal.completedSteps,
     color |-> IF updates.color # Undef THEN updates.color ELSE goal.color,
     createdAt |-> IF updates.createdAt # 0 THEN updates.createdAt ELSE goal.createdAt]

\* goalUtils.updateGoal: the store after the call
updateGoal(gs, goalId, updates) ==
    IF IndexById(gs, goalId) # 0
    THEN [gs EXCEPT ![IndexById(gs, goalId)] = Spread(gs[IndexById(gs, goalId)], updates)]
    ELSE gs

\* goalUtils.deleteGoal: the store after goals.splice(goalIndex, 1)
deleteGoal(gs, goalId) ==
    IF IndexById(gs, goalId) # 0
    THEN SubSeq(gs, 1, IndexById(gs, goalId) - 1)
            \o SubSeq(gs, IndexById(gs, goalId) + 1, Len(gs))
    ELSE gs

-----------------------------------------------------------------------------
(* Requests and responses *)

\* the fields a JSON body may carry (syntaxError: the body is not JSON)
NoBody ==
    [syntaxError |-> FALSE, email |-> Undef, password |-> Undef,
     newPassword |-> Undef, title |-> Undef, description |-> Undef,
     totalSteps |-> Undef, completedSteps |-> Undef, color |-> Undef,
     id |-> 0, userId |-> 0, createdAt |-> 0]

NoReq ==
    [handler |-> "", method |-> "", client |-> "", cookie |-> NoToken,
     header |-> NoToken, goalId |-> 0, body |-> NoBody, forwarded |-> "",
     realIP |-> "", user |-> NoUser, isCSRFValidated |-> FALSE, origin |-> ""]

NoResp ==
    [status |-> 0, code |-> "", error |-> "", message |-> "", data |-> <<>>,
     userId |-> 0, userEmail |-> "", token |-> NoToken, csrfToken |-> NoToken,
     cookieAuth |-> NoToken, cookieCsrf |-> NoToken, deletedGoalId |-> 0,
     retryAfter |-> 0]

\* a {error, code} body with a status (code "" : the body has no code field)
ErrorResponse(status, code, error) ==
    [NoResp EXCEPT !.status = status, !.code = code, !.error = error]

\* a body that is the JSON of goal records
GoalsResponse(status, gs) == [NoResp EXCEPT !.status = status, !.data = gs]

\* createUnauthorizedResponse
createUnauthorizedResponse(message) == ErrorResponse(401, "UNAUTHORIZED", message)

\* createServerErrorResponse
createServerErrorResponse == ErrorResponse(500, "INTERNAL_ERROR", "Internal server error")

-----------------------------------------------------------------------------
(* The goal handlers.  Each yields the response and the goal store it      *)
(* leaves: [resp, goals].                                                  *)

Out(r, gs) == [resp |-> r, goals |-> gs]

\* getGoalsHandler (GET /api/goals)
getGoalsHandler(r, gs, t) ==
    Out(GoalsResponse(200, getGoalsByUserId(gs, r.user.id)), gs)

\* createGoalHandler (POST /api/goals)
createGoalHandler(r, gs, t) ==
    LET goalData == r.body
        sanitizedTitle == Trim(goalData.title.s)
        sanitizedDescription ==
            IF ~Falsy(goalData.description) /\ goalData.description.t = "string"
            THEN Trim(goalData.description.s) ELSE ""
        sanitizedColor ==
            IF /\ ~Falsy(goalData.color) /\ goalData.color.t = "string"
               /\ HexColorRegexTest(goalData.color.s)
            THEN goalData.color.s ELSE "#3B82F6"
        goal == createGoal(r.user.id,
                    [title |-> Str(sanitizedTitle),
                     description |-> Str(sanitizedDescription),
                     totalSteps |-> goalData.totalSteps,
                     color |-> Str(sanitizedColor)], t)
    IN  IF goalData.syntaxError
        THEN Out(ErrorResponse(400, "INVALID_JSON", "Invalid JSON in request body"), gs)
        ELSE IF Falsy(goalData.title) \/ goalData.title.t # "string"
        THEN Out(ErrorResponse(400, "MISSING_TITLE",
                    "Goal title is required and must be a string"), gs)
        ELSE IF Falsy(goalData.totalSteps) \/ goalData.totalSteps.t # "number"
        THEN Out(ErrorResponse(400, "MISSING_TOTAL_STEPS",
                    "Total steps is required and must be a number"), gs)
        ELSE IF LessThan(goalData.totalSteps, 1) \/ GreaterThan(goalData.totalSteps, 365)
        THEN Out(ErrorResponse(400, "INVALID_TOTAL_STEPS",
                    "Total steps must be between 1 and 365"), gs)
        ELSE IF Len(sanitizedTitle) = 0
        THEN Out(ErrorResponse(400, "EMPTY_TITLE", "Goal title cannot be empty"), gs)
        ELSE IF Len(sanitizedTitle) > 100
        THEN Out(ErrorResponse(400, "TITLE_TOO_LONG",
                    "Goal title cannot exceed 100 characters"), gs)
        ELSE IF Len(sanitizedDescription) > 500
        THEN Out(ErrorResponse(400, "DESCRIPTION_TOO_LONG",
                    "Goal description cannot exceed 500 characters"), gs)
        ELSE Out(GoalsResponse(201, <<goal>>), Append(gs, goal))

\* The three handlers of goals/route.ts:185-274 take the route context
\* ({ params }) as a second argument; they are modelled as called with it,
\* the way the file they come from expects, r.goalId standing for params.id.

\* GET of goals/route.ts:189 (GET /api/goals/[id], through withAuth)
GET_goal(r, gs, t) ==
    LET goal == getGoalById(gs, r.goalId)
    IN  IF goal = NoGoal \/ goal.userId # r.user.id
        THEN Out(ErrorResponse(404, "", "Goal not found"), gs)
        ELSE Out(GoalsResponse(200, <<goal>>), gs)

\* faulty variant: the update is written before the owner is looked at
PUT_goal_UpdateBeforeCheck(r, gs, t) ==
    LET updates == r.body
        goal == getGoalById(gs, r.goalId)
    IN  IF updates.syntaxError
        THEN Out(ErrorResponse(500, "", "Internal server error"), gs)
        ELSE IF goal = NoGoal
        THEN Out(ErrorResponse(404, "", "Goal not found"), gs)
        ELSE IF goal.userId # r.user.id
        THEN Out(ErrorResponse(404, "", "Goal not found"),
                 updateGoal(gs, r.goalId, updates))
        ELSE Out(GoalsResponse(200, <<Spread(goal, updates)>>),
                 updateGoal(gs, r.goalId, updates))

\* PUT of goals/route.ts:216 (PUT /api/goals/[id])
PUT_goal(r, gs, t) ==
    LET updates == r.body
        goal == getGoalById(gs, r.goalId)
    IN  IF updates.syntaxError
        THEN Out(ErrorResponse(500, "", "Internal server error"), gs)
        ELSE IF goal = NoGoal \/ goal.userId # r.user.id
        THEN Out(ErrorResponse(404, "", "Goal not found"), gs)
        ELSE Out(GoalsResponse(200, <<Spread(goal, updates)>>),
                 updateGoal(gs, r.goalId, updates))

\* DELETE of goals/route.ts:245 (DELETE /api/goals/[id])
DELETE_goal(r, gs, t) ==
    LET goal == getGoalById(gs, r.goalId)
    IN  IF goal = NoGoal \/ goal.userId # r.user.id
        THEN Out(ErrorResponse(404, "", "Goal not found"), gs)
        ELSE Out([NoResp EXCEPT !.status = 200,
                                !.message = "Goal deleted successfully"],
                 deleteGoal(gs, r.goalId))

\* getGoalHandler (GET /api/goals/[id], through withAuthOnly)
getGoalHandler(r, gs, t) ==
    LET goal == getGoalById(gs, r.goalId)
    IN  IF r.goalId = 0
        THEN Out(ErrorResponse(400, "MISSING_GOAL_ID", "Goal ID is required"), gs)
        ELSE IF goal = NoGoal
        THEN Out(ErrorResponse(404, "GOAL_NOT_FOUND", "Goal not found"), gs)
        ELSE IF goal.userId # r.user.id
        THEN Out(ErrorResponse(403, "ACCESS_DENIED",
                    "Access denied. You can only view your own goals."), gs)
        ELSE Out(GoalsResponse(200, <<goal>>), gs)

\* the sanitizedUpdates object updateGoalHandler builds from a body that
\* passed its validation
SanitizedUpdates(existingGoal, updates) ==
    [NoBody EXCEPT
        !.title = IF updates.title # Undef THEN Str(Trim(updates.title.s)) ELSE Undef,
        !.description =
            IF updates.description # Undef
            THEN Str(Trim(updates.description.s)) ELSE Undef,
        !.completedSteps =
            IF /\ updates.totalSteps # Undef
               /\ Less(updates.totalSteps, existingGoal.completedSteps)
            THEN updates.totalSteps
            ELSE updates.completedSteps,
        !.totalSteps = updates.totalSteps,
        !.color = updates.color]

\* updateGoalHandler up to `await request.json()`: the response of an
\* early return, or NoResp when the handler goes on to read the body
updateGoalHandlerChecks(r, gs) ==
    LET existingGoal == getGoalById(gs, r.goalId)
    IN  IF r.goalId = 0
        THEN ErrorResponse(400, "MISSING_GOAL_ID", "Goal ID is required")
        ELSE IF existingGoal = NoGoal
        THEN ErrorResponse(404, "GOAL_NOT_FOUND", "Goal not found")
        ELSE IF existingGoal.userId # r.user.id
        THEN ErrorResponse(403, "ACCESS_DENIED",
                    "Access denied. You can only update your own goals.")
        ELSE NoResp

\* updateGoalHandler from `await request.json()` on: the body is validated
\* against existingGoal, the goal the handler read before it waited, and
\* the update is written to the store gs as it is when the body has come
updateGoalHandlerFrom(r, existingGoal, gs) ==
    LET updates == r.body
        sanitizedUpdates == SanitizedUpdates(existingGoal, updates)
        Bad(code, error) == Out(ErrorResponse(400, code, error), gs)
    IN  IF updates.syntaxError
        THEN Bad("INVALID_JSON", "Invalid JSON in request body")
        ELSE IF updates.title # Undef /\ updates.title.t # "string"
        THEN Bad("INVALID_TITLE_TYPE", "Goal title must be a string")
        ELSE IF updates.title # Undef /\ Len(Trim(updates.title.s)) = 0
        THEN Bad("EMPTY_TITLE", "Goal title cannot be empty")
        ELSE IF updates.title # Undef /\ Len(Trim(updates.title.s)) > 100
        THEN Bad("TITLE_TOO_LONG", "Goal title cannot exceed 100 characters")
        ELSE IF updates.description # Undef /\ updates.description.t # "string"
        THEN Bad("INVALID_DESCRIPTION_TYPE", "Goal description must be a string")
        ELSE IF updates.description # Undef /\ Len(Trim(updates.description.s)) > 500
        THEN Bad("DESCRIPTION_TOO_LONG", "Goal description cannot exceed 500 characters")
        ELSE IF updates.completedSteps # Undef /\ ~IsInteger(updates.completedSteps)
        THEN Bad("INVALID_COMPLETED_STEPS", "Completed steps must be a whole number")
        ELSE IF updates.completedSteps # Undef /\ LessThan(updates.completedSteps, 0)
        THEN Bad("NEGATIVE_COMPLETED_STEPS", "Completed steps cannot be negative")
        ELSE IF /\ updates.completedSteps # Undef
                /\ Greater(updates.completedSteps, existingGoal.totalSteps)
        THEN \* the message also names existingGoal.totalSteps
             Bad("COMPLETED_EXCEEDS_TOTAL", "Completed steps cannot exceed total steps")
        ELSE IF updates.totalSteps # Undef /\ ~IsInteger(updates.totalSteps)
        THEN Bad("INVALID_TOTAL_STEPS", "Total steps must be a whole number")
        ELSE IF /\ updates.totalSteps # Undef
                /\ (LessThan(updates.totalSteps, 1) \/ GreaterThan(updates.totalSteps, 365))
        THEN Bad("TOTAL_STEPS_OUT_OF_RANGE", "Total steps must be between 1 and 365")
        ELSE IF updates.color # Undef /\ updates.color.t # "string"
        THEN Bad("INVALID_COLOR_TYPE", "Goal color must be a string")
        ELSE IF updates.color # Undef /\ ~HexColorRegexTest(updates.color.s)
        THEN Bad("INVALID_COLOR_FORMAT",
                 "Goal color must be a valid hex color (e.g., #3B82F6)")
        ELSE IF sanitizedUpdates = NoBody
        THEN Bad("NO_UPDATES", "No valid updates provided")
        ELSE IF getGoalById(gs, r.goalId) = NoGoal
        THEN Out(ErrorResponse(500, "UPDATE_FAILED", "Failed to update goal"), gs)
        ELSE Out(GoalsResponse(200,
                    <<Spread(getGoalById(gs, r.goalId), sanitizedUpdates)>>),
                 updateGoal(gs, r.goalId, sanitizedUpdates))

\* updateGoalHandler (PUT /api/goals/[id]) when the body is there at once
updateGoalHandler(r, gs, t) ==
    IF updateGoalHandlerChecks(r, gs) # NoResp
    THEN Out(updateGoalHandlerChecks(r, gs), gs)
    ELSE updateGoalHandlerFrom(r, getGoalById(gs, r.goalId), gs)

\* faulty variant: the goal is deleted whoever owns it
deleteGoalHandler_AnyOwner(r, gs, t) ==
    IF getGoalById(gs, r.goalId) = NoGoal
    THEN Out(ErrorResponse(404, "GOAL_NOT_FOUND", "Goal not found"), gs)
    ELSE Out([NoResp EXCEPT !.status = 200,
                            !.message = "Goal deleted successfully",
                            !.deletedGoalId = r.goalId],
             deleteGoal(gs, r.goalId))

\* deleteGoalHandler (DELETE /api/goals/[id])
deleteGoalHandler(r, gs, t) ==
    LET existingGoal == getGoalById(gs, r.goalId)
    IN  IF r.goalId = 0
        THEN Out(ErrorResponse(400, "MISSING_GOAL_ID", "Goal ID is required"), gs)
        ELSE IF existingGoal = NoGoal
        THEN Out(ErrorResponse(404, "GOAL_NOT_FOUND", "Goal not found"), gs)
        ELSE IF existingGoal.userId # r.user.id
        THEN Out(ErrorResponse(403, "ACCESS_DENIED",
                    "Access denied. You can only delete your own goals."), gs)
        ELSE Out([NoResp EXCEPT !.status = 200,
                                !.message = "Goal deleted successfully",
                                !.deletedGoalId = r.goalId],
                 deleteGoal(gs, r.goalId))

\* the route table: the wrapper each exported handler is built with
Wrapper(handler) ==
    IF handler \in {"getGoalsHandler", "getGoalHandler"}
    THEN "withAuthOnly" ELSE "withAuth"

\* the wrapped handler of a request, run
RunHandler(r, gs, t) ==
    CASE r.handler = "getGoalsHandler" -> getGoalsHandler(r, gs, t)
      [] r.handler = "createGoalHandler" -> createGoalHandler(r, gs, t)
      [] r.handler = "GET_goal" -> GET_goal(r, gs, t)
      [] r.handler = "PUT_goal" -> PUT_goal(r, gs, t)
      [] r.handler = "DELETE_goal" -> DELETE_goal(r, gs, t)
      [] r.handler = "getGoalHandler" -> getGoalHandler(r, gs, t)
      [] r.handler = "updateGoalHandler" -> updateGoalHandler(r, gs, t)
      [] r.handler = "deleteGoalHandler" -> deleteGoalHandler(r, gs, t)

-----------------------------------------------------------------------------
(* The request gate (lib/middleware.ts, lib/csrf.ts) *)

\* getTokenFromCookies
getTokenFromCookies(r) == r.cookie

\* csrf.getTokenFromHeader
getTokenFromHeader(r) == r.header

\* faulty variant: a request without the header passes
validateRequest_AbsentPasses(r, userId, t) ==
    IF getTokenFromHeader(r) = NoToken
    THEN TRUE
    ELSE csrf_verifyToken(getTokenFromHeader(r), userId, t)

\* csrf.validateRequest
validateRequest(r, userId, t) ==
    IF getTokenFromHeader(r) = NoToken
    THEN FALSE
    ELSE csrf_verifyToken(getTokenFromHeader(r), userId, t)

\* csrf.validateOrSkip
validateOrSkip(r, userId, t) ==
    IF ~requiresCSRFProtection(r.method)
    THEN TRUE
    ELSE validateRequest(r, userId, t)

\* csrfMiddleware.createValidationResponse (NoResp stands for null)
createValidationResponse(isValid, method) ==
    IF ~requiresCSRFProtection(method)
    THEN NoResp
    ELSE IF ~isValid
    THEN ErrorResponse(403, "CSRF_INVALID", "CSRF token validation failed")
    ELSE NoResp

\* csrfMiddleware.validate
csrfMiddleware_validate(r, userId, t) ==
    createValidationResponse(validateOrSkip(r, userId, t), r.method)

\* faulty variant: the token's user is never looked up
SessionResponse_NoLookup(r, us, t) ==
    IF getTokenFromCookies(r) = NoToken
    THEN createUnauthorizedResponse("No authentication token provided")
    ELSE IF ~verifyToken(getTokenFromCookies(r), t)
    THEN createUnauthorizedResponse("Invalid or expired authentication token")
    ELSE NoResp

\* the session steps shared by withAuth and withAuthOnly (middleware.ts:17-35):
\* the 401 response, or NoResp when the session resolves to a user
SessionResponse(r, us, t) ==
    IF getTokenFromCookies(r) = NoToken
    THEN createUnauthorizedResponse("No authentication token provided")
    ELSE IF ~verifyToken(getTokenFromCookies(r), t)
    THEN createUnauthorizedResponse("Invalid or expired authentication token")
    ELSE IF getUserById(us, getTokenFromCookies(r).userId) = NoUser
    THEN createUnauthorizedResponse("User not found")
    ELSE NoResp

-----------------------------------------------------------------------------
(* The auth endpoints *)

\* authHelpers.createAuthResponse
createAuthResponse(user, nonce, t) ==
    LET token == generateToken(user.id, t)
        csrfToken == csrf_generateToken(user.id, nonce, t)
    IN  [NoResp EXCEPT !.status = 200, !.userId = user.id, !.userEmail = user.email,
                       !.csrfToken = csrfToken,
                       !.cookieAuth = token, !.cookieCsrf = csrfToken]

\* faulty variant: an email nobody registered is answered 404
loginHandler_UserNotFound(body, us, nonce, t) ==
    LET email == body.email
        password == body.password
        user == getUserByEmail(us, Trim(ToLowerCase(email.s)))
        InternalError == ErrorResponse(500, "INTERNAL_ERROR",
                            "An error occurred during login. Please try again.")
    IN  IF body.syntaxError
        THEN InternalError
        ELSE IF Falsy(email) \/ Falsy(password)
        THEN ErrorResponse(400, "MISSING_CREDENTIALS", "Email and password are required")
        ELSE IF ~(email.t = "string" /\ EmailRegexTest(email.s))
        THEN ErrorResponse(400, "INVALID_EMAIL_FORMAT", "Please enter a valid email address")
        ELSE IF user = NoUser
        THEN ErrorResponse(404, "USER_NOT_FOUND", "No account with this email")
        ELSE IF password.t # "string"
        THEN InternalError
        ELSE IF ~comparePassword(password.s, user.password)
        THEN ErrorResponse(401, "INVALID_CREDENTIALS", "Invalid email or password")
        ELSE createAuthResponse(user, nonce, t)

\* loginHandler (POST /api/auth/login, inside withRateLimit)
loginHandler(body, us, nonce, t) ==
    LET email == body.email
        password == body.password
        user == getUserByEmail(us, Trim(ToLowerCase(email.s)))
        InternalError == ErrorResponse(500, "INTERNAL_ERROR",
                            "An error occurred during login. Please try again.")
    IN  IF body.syntaxError
        THEN InternalError
        ELSE IF Falsy(email) \/ Falsy(password)
        THEN ErrorResponse(400, "MISSING_CREDENTIALS", "Email and password are required")
        ELSE IF ~(email.t = "string" /\ EmailRegexTest(email.s))
        THEN ErrorResponse(400, "INVALID_EMAIL_FORMAT", "Please enter a valid email address")
        ELSE IF user = NoUser
        THEN ErrorResponse(401, "INVALID_CREDENTIALS", "Invalid email or password")
        ELSE IF password.t # "string"
        THEN InternalError
        ELSE IF ~comparePassword(password.s, user.password)
        THEN ErrorResponse(401, "INVALID_CREDENTIALS", "Invalid email or password")
        ELSE createAuthResponse(user, nonce, t)

\* what an auth handler yields: the response and the user store it leaves
AuthOut(r, us) == [resp |-> r, users |-> us]

\* POST of auth/register/route.ts up to `await authUtils.createUser`: the
\* response of an early return, or NoResp when the route goes on to create
POST_registerChecks(body, us) ==
    LET email == body.email
        password == body.password
    IN  IF body.syntaxError
        THEN ErrorResponse(500, "", "Internal server error")
        ELSE IF Falsy(email) \/ Falsy(password)
        THEN ErrorResponse(400, "", "Email and password are required")
        ELSE IF email.t = "string" /\ getUserByEmail(us, email.s) # NoUser
        THEN ErrorResponse(400, "", "User already exists")
        ELSE NoResp

\* POST of auth/register/route.ts from `await authUtils.createUser` on: the
\* password is hashed and the user pushed to the store us as it is then
POST_registerFrom(body, us, t) ==
    LET email == body.email
        password == body.password
    IN  IF password.t # "string" \/ email.t # "string"
        THEN AuthOut(ErrorResponse(500, "", "Internal server error"), us)
        ELSE AuthOut([NoResp EXCEPT !.status = 201,
                                    !.token = generateToken(t, t),
                                    !.userId = t, !.userEmail = email.s],
                     createUser(us, email.s, password.s, t))

\* POST of auth/register/route.ts (POST /api/auth/register) when the hash
\* is there at once
POST_register(body, us, t) ==
    IF POST_registerChecks(body, us) # NoResp
    THEN AuthOut(POST_registerChecks(body, us), us)
    ELSE POST_registerFrom(body, us, t)

\* resetPasswordHandler (POST /api/auth/reset-password, inside withRateLimit)
resetPasswordHandler(body, us, t) ==
    LET email == body.email
        newPassword == body.newPassword
        sanitizedEmail == Trim(ToLowerCase(email.s))
        user == getUserByEmail(us, sanitizedEmail)
        Bad(code, error) == AuthOut(ErrorResponse(400, code, error), us)
        UniformMessage ==
            "If an account with this email exists, the password has been reset successfully."
    IN  IF body.syntaxError
        THEN Bad("INVALID_JSON", "Invalid request format")
        ELSE IF Falsy(email) \/ Falsy(newPassword)
        THEN Bad("MISSING_CREDENTIALS", "Email and new password are required")
        ELSE IF email.t # "string"
        THEN AuthOut(ErrorResponse(500, "INTERNAL_ERROR",
                "An error occurred during password reset. Please try again."), us)
        ELSE IF ~EmailRegexTest(sanitizedEmail)
        THEN Bad("INVALID_EMAIL_FORMAT", "Please enter a valid email address")
        ELSE IF newPassword.t # "string"
        THEN Bad("INVALID_PASSWORD_TYPE", "Password must be a string")
        ELSE IF Len(newPassword.s) < 6
        THEN Bad("PASSWORD_TOO_SHORT", "Password must be at least 6 characters long")
        ELSE IF Len(newPassword.s) > 128
        THEN Bad("PASSWORD_TOO_LONG", "Password cannot exceed 128 characters")
        ELSE IF ~HasLetter(newPassword.s) \/ ~HasNumber(newPassword.s)
        THEN Bad("PASSWORD_TOO_WEAK",
                 "Password must contain at least one letter and one number")
        ELSE IF user = NoUser
        THEN AuthOut([NoResp EXCEPT !.status = 200, !.code = "RESET_INITIATED",
                                    !.message = UniformMessage], us)
        ELSE AuthOut([NoResp EXCEPT !.status = 200, !.code = "RESET_COMPLETED",
                                    !.message = UniformMessage],
                     updateUserPassword(us, user.id, newPassword.s))

\* POST of the second reset-password route file (unnamed/part_002)
POST_resetPassword(body, us, t) ==
    LET email == body.email
        newPassword == body.newPassword
        user == IF email.t = "string" THEN getUserByEmail(us, email.s) ELSE NoUser
        InternalError == ErrorResponse(500, "", "Internal server error")
    IN  IF body.syntaxError
        THEN AuthOut(InternalError, us)
        ELSE IF Falsy(email) \/ Falsy(newPassword)
        THEN AuthOut(ErrorResponse(400, "", "Email and new password are required"), us)
        ELSE IF user = NoUser
        THEN AuthOut(ErrorResponse(404, "", "User not found"), us)
        ELSE IF newPassword.t # "string"
        THEN AuthOut(InternalError, us)
        ELSE AuthOut([NoResp EXCEPT !.status = 200,
                                    !.message = "Password reset successfully"],
                     updateUserPassword(us, user.id, newPassword.s))

-----------------------------------------------------------------------------
(* The rate limiter (lib/middleware.ts withRateLimit) *)

\* the addresses requests come from
IPs == {"unknown", "10.0.0.1"}

\* no entry in the requestCounts map
NoCounter == [count |-> 0, resetTime |-> 0]

\* forwarded.split(",")[0].trim()
FirstForwarded(forwarded) ==
    CASE forwarded = "10.0.0.1, 172.16.0.9" -> "10.0.0.1"
      [] OTHER -> forwarded

\* getClientIP
getClientIP(r) ==
    IF r.forwarded # ""
    THEN FirstForwarded(r.forwarded)
    ELSE IF r.realIP # ""
    THEN r.realIP
    ELSE "unknown"

\* "Clean up expired entries": the map after the loop
CleanedCounts(counts, t) ==
    [ip \in IPs |->
        IF counts[ip] # NoCounter /\ counts[ip].resetTime < t
        THEN NoCounter ELSE counts[ip]]

\* faulty variant: every request moves the end of the window
CounterOf_Sliding(counts, clientIP, windowMs, t) ==
    [count |-> CleanedCounts(counts, t)[clientIP].count, resetTime |-> t + windowMs]

\* requestCounts.get(clientIP) || { count: 0, resetTime: now + windowMs }
CounterOf(counts, clientIP, windowMs, t) ==
    IF CleanedCounts(counts, t)[clientIP] # NoCounter
    THEN CleanedCounts(counts, t)[clientIP]
    ELSE [count |-> 0, resetTime |-> t + windowMs]

\* faulty variant: the limit is passed only by the request after next
RateLimited_OneMore(counts, clientIP, maxRequests, windowMs, t) ==
    /\ CounterOf(counts, clientIP, windowMs, t).count > maxRequests
    /\ CounterOf(counts, clientIP, windowMs, t).resetTime > t

\* "Check if rate limit exceeded"
RateLimited(counts, clientIP, maxRequests, windowMs, t) ==
    LET counter == CounterOf(counts, clientIP, windowMs, t)
    IN  counter.count >= maxRequests /\ counter.resetTime > t

\* the 429 response; Math.ceil((counter.resetTime - now) / 1000)
TooManyRequests(counts, clientIP, windowMs, t) ==
    LET counter == CounterOf(counts, clientIP, windowMs, t)
    IN  [ErrorResponse(429, "RATE_LIMIT_EXCEEDED", "Too many requests")
            EXCEPT !.retryAfter = (counter.resetTime - t + 999) \div 1000]

\* requestCounts after withRateLimit has looked at a request
CountsAfter(counts, clientIP, maxRequests, windowMs, t) ==
    IF RateLimited(counts, clientIP, maxRequests, windowMs, t)
    THEN CleanedCounts(counts, t)
    ELSE [CleanedCounts(counts, t) EXCEPT
            ![clientIP] = [CounterOf(counts, clientIP, windowMs, t)
                                EXCEPT !.count = @ + 1]]

-----------------------------------------------------------------------------
(* Clients and the requests they send *)

Clients == {"c1", "c2"}

NoJar == [auth |-> NoToken, csrf |-> NoToken, via |-> "none"]

\* Cookies a browser still holds from before the server process restarted:
\* signed with the same secrets, for a user who registered in the earlier
\* process life and is not in the re-seeded store.
LeftoverJar ==
    [auth |-> generateToken(StartTime - 2000, StartTime - 1000),
     csrf |-> csrf_generateToken(StartTime - 2000, "nonceA", StartTime - 1000),
     via |-> "earlier"]

\* the x-forwarded-for header the client's requests arrive with
ForwardedOf(c) == IF c = "c1" THEN "10.0.0.1, 172.16.0.9" ELSE ""

\* a token whose signature does not verify: the payload of tok, tampered with
Forge(tok) == [tok EXCEPT !.key = "forged"]

\* the instants the clock is read at, after the start
Instants ==
    {StartTime + d : d \in {CSRF_TTL_MS - 501, CSRF_TTL_MS - 500, CSRF_TTL_MS}}

AuthRequest(c, handler, body) ==
    [NoReq EXCEPT !.handler = handler, !.method = "POST", !.client = c,
                  !.body = body, !.forwarded = ForwardedOf(c)]

GateRequest(c, handler, method, cookie, header, goalId, body) ==
    [NoReq EXCEPT !.handler = handler, !.method = method, !.client = c,
                  !.cookie = cookie, !.header = header, !.goalId = goalId,
                  !.body = body, !.forwarded = ForwardedOf(c)]

Credentials(email, password) ==
    [NoBody EXCEPT !.email = Str(email), !.password = Str(password)]

ResetBody(email, newPassword) ==
    [NoBody EXCEPT !.email = Str(email), !.newPassword = Str(newPassword)]

-----------------------------------------------------------------------------
(* The state machine *)

Init ==
    /\ users = SeedUsers
    /\ goals = SeedGoals
    /\ requestCounts = [ip \in IPs |-> NoCounter]
    /\ now = StartTime
    /\ jar = [c \in Clients |-> IF c = "c2" THEN LeftoverJar ELSE NoJar]
    /\ req = NoReq
    /\ pc = "idle"
    /\ resp = NoResp
    /\ dispatched = 0
    /\ pending = {}

\* time passes between requests
Tick(t) ==
    /\ pc = "idle"
    /\ t > now
    /\ now' = t
    /\ UNCHANGED <<users, goals, requestCounts, jar, req, pc, resp, dispatched, pending>>

\* POST /api/auth/login: withRateLimit(5, 5 min)(loginHandler)
Login(c, body, nonce) ==
    LET r == AuthRequest(c, "loginHandler", body)
        limited == RateLimited(requestCounts, getClientIP(r),
                               LOGIN_MAX_REQUESTS, LOGIN_WINDOW_MS, now)
    IN  /\ pc = "idle"
        /\ req' = r
        /\ requestCounts' = CountsAfter(requestCounts, getClientIP(r),
                                LOGIN_MAX_REQUESTS, LOGIN_WINDOW_MS, now)
        /\ resp' = IF limited
                   THEN TooManyRequests(requestCounts, getClientIP(r),
                                        LOGIN_WINDOW_MS, now)
                   ELSE loginHandler(body, users, nonce, now)
        /\ dispatched' = IF limited THEN 0 ELSE 1
        /\ pc' = "Responded"
        /\ UNCHANGED <<users, goals, now, jar, pending>>

\* POST /api/auth/register
Register(c, body) ==
    LET out == POST_register(body, users, now)
    IN  /\ pc = "idle"
        /\ Len(out.users) + Cardinality(pending) <= MaxUsers
        /\ req' = AuthRequest(c, "POST_register", body)
        /\ users' = out.users
        /\ resp' = out.resp
        /\ dispatched' = 1
        /\ pc' = "Responded"
        /\ UNCHANGED <<goals, requestCounts, now, jar, pending>>

\* POST /api/auth/reset-password: withRateLimit(3, 30 min)(resetPasswordHandler)
ResetPassword(c, body) ==
    LET r == AuthRequest(c, "resetPasswordHandler", body)
        limited == RateLimited(requestCounts, getClientIP(r),
                               RESET_MAX_REQUESTS, RESET_WINDOW_MS, now)
        out == resetPasswordHandler(body, users, now)
    IN  /\ pc = "idle"
        /\ req' = r
        /\ requestCounts' = CountsAfter(requestCounts, getClientIP(r),
                                RESET_MAX_REQUESTS, RESET_WINDOW_MS, now)
        /\ resp' = IF limited
                   THEN TooManyRequests(requestCounts, getClientIP(r),
                                        RESET_WINDOW_MS, now)
                   ELSE out.resp
        /\ users' = IF limited THEN users ELSE out.users
        /\ dispatched' = IF limited THEN 0 ELSE 1
        /\ pc' = "Responded"
        /\ UNCHANGED <<goals, now, jar, pending>>

\* POST of the second reset-password route file (no rate limit)
ResetPasswordPlain(c, body) ==
    LET out == POST_resetPassword(body, users, now)
    IN  /\ pc = "idle"
        /\ req' = AuthRequest(c, "POST_resetPassword", body)
        /\ users' = out.users
        /\ resp' = out.resp
        /\ dispatched' = 1
        /\ pc' = "Responded"
        /\ UNCHANGED <<goals, requestCounts, now, jar, pending>>

\* a request arrives at a route wrapped by withAuth / withAuthOnly
Receive(r) ==
    /\ pc = "idle"
    /\ r.handler = "createGoalHandler" => Len(goals) < MaxGoals
    /\ req' = r
    /\ pc' = "Unauthenticated"
    /\ resp' = NoResp
    /\ dispatched' = 0
    /\ UNCHANGED <<users, goals, requestCounts, now, jar, pending>>

\* middleware.ts:17-39 / 67-89: cookie, token, user
VerifySession ==
    /\ pc = "Unauthenticated"
    /\ IF SessionResponse(req, users, now) # NoResp
       THEN /\ resp' = SessionResponse(req, users, now)
            /\ pc' = "Unauthorized"
            /\ req' = req
       ELSE /\ req' = [req EXCEPT !.user = getUserById(users, getTokenFromCookies(req).userId)]
            /\ pc' = "SessionVerified"
            /\ resp' = resp
    /\ UNCHANGED <<users, goals, requestCounts, now, jar, dispatched, pending>>

\* middleware.ts:41-48 (withAuth only): csrfMiddleware.validate
ValidateCSRF ==
    /\ pc = "SessionVerified"
    /\ Wrapper(req.handler) = "withAuth"
    /\ IF csrfMiddleware_validate(req, req.user.id, now) # NoResp
       THEN /\ resp' = csrfMiddleware_validate(req, req.user.id, now)
            /\ pc' = "CSRFRejected"
            /\ req' = req
       ELSE /\ req' = [req EXCEPT !.isCSRFValidated = TRUE]
            /\ pc' = "CSRFVerified"
            /\ resp' = resp
    /\ UNCHANGED <<users, goals, requestCounts, now, jar, dispatched, pending>>

\* middleware.ts:51 / 92: the wrapped handler runs
Dispatch ==
    /\ \/ pc = "CSRFVerified" /\ Wrapper(req.handler) = "withAuth"
       \/ pc = "SessionVerified" /\ Wrapper(req.handler) = "withAuthOnly"
    /\ goals' = RunHandler(req, goals, now).goals
    /\ resp' = RunHandler(req, goals, now).resp
    /\ dispatched' = dispatched + 1
    /\ pc' = "Handled"
    /\ UNCHANGED <<users, requestCounts, now, jar, req, pending>>

\* unnamed/part_001:131: updateGoalHandler has read existingGoal, found it
\* the user's, and waits for the request body; the server is free to serve
\* other requests meanwhile
Suspend ==
    /\ pc = "CSRFVerified"
    /\ req.handler = "updateGoalHandler"
    /\ updateGoalHandlerChecks(req, goals) = NoResp
    /\ Cardinality(pending) < MaxPending
    /\ pending' = pending \cup
            {[req |-> req, existingGoal |-> getGoalById(goals, req.goalId)]}
    /\ req' = NoReq
    /\ resp' = NoResp
    /\ dispatched' = 0
    /\ pc' = "idle"
    /\ UNCHANGED <<users, goals, requestCounts, now, jar>>

\* unnamed/part_001:131-357: the body of a waiting update has come; the
\* handler validates it against the existingGoal it holds and writes
Resume(p) ==
    /\ pc = "idle"
    /\ p \in pending
    /\ p.req.handler = "updateGoalHandler"
    /\ pending' = pending \ {p}
    /\ req' = p.req
    /\ goals' = updateGoalHandlerFrom(p.req, p.existingGoal, goals).goals
    /\ resp' = updateGoalHandlerFrom(p.req, p.existingGoal, goals).resp
    /\ dispatched' = 1
    /\ pc' = "Handled"
    /\ UNCHANGED <<users, requestCounts, now, jar>>

\* register/route.ts:18-26, auth.ts:94: the route has found no user with
\* the email and waits for bcrypt in createUser; the server is free to
\* serve other requests meanwhile
RegisterSuspend(c, body) ==
    /\ pc = "idle"
    /\ POST_registerChecks(body, users) = NoResp
    /\ Cardinality(pending) < MaxPending
    /\ Len(users) + Cardinality(pending) < MaxUsers
    /\ pending' = pending \cup
            {[req |-> AuthRequest(c, "POST_register", body), existingGoal |-> NoGoal]}
    /\ UNCHANGED <<users, goals, requestCounts, now, jar, req, pc, resp, dispatched>>

\* auth.ts:95-102, register/route.ts:27-38: the hash of a waiting
\* registration is there; the user is pushed and the route answers
RegisterResume(p) ==
    /\ pc = "idle"
    /\ p \in pending
    /\ p.req.handler = "POST_register"
    /\ pending' = pending \ {p}
    /\ req' = p.req
    /\ users' = POST_registerFrom(p.req.body, users, now).users
    /\ resp' = POST_registerFrom(p.req.body, users, now).resp
    /\ dispatched' = 1
    /\ pc' = "Responded"
    /\ UNCHANGED <<goals, requestCounts, now, jar>>

\* the response reaches the client, which keeps the tokens it carries
Complete ==
    /\ pc \in {"Unauthorized", "CSRFRejected", "Handled", "Responded"}
    /\ jar' = [jar EXCEPT ![req.client] =
                IF resp.cookieAuth # NoToken
                THEN [auth |-> resp.cookieAuth, csrf |-> resp.cookieCsrf, via |-> "login"]
                ELSE IF resp.token # NoToken
                THEN [auth |-> resp.token, csrf |-> @.csrf, via |-> "register"]
                ELSE @]
    /\ req' = NoReq
    /\ resp' = NoResp
    /\ dispatched' = 0
    /\ pc' = "idle"
    /\ UNCHANGED <<users, goals, requestCounts, now, pending>>

-----------------------------------------------------------------------------
(* The gate under every combination of cookie and header.  Client c1 is    *)
(* the seeded demo user; client c2 starts with leftover cookies and        *)
(* registers a second account.                                             *)

\* login attempts a client makes within one rate-limit window
MaxAttempts == 2

\* what a request may carry as its session cookie: nothing, a client's
\* session token, an anti-forgery token in its place, a tampered token
GateCookies ==
    {NoToken} \cup {jar[c].auth : c \in Clients}
        \cup {jar["c1"].csrf, Forge(jar["c1"].auth)}

\* what a request may carry as its x-csrf-token header
GateHeaders ==
    {NoToken} \cup {jar[c].csrf : c \in Clients} \cup {Forge(jar["c1"].csrf)}

\* the routes, each with a method its export serves (a GET export also
\* answers HEAD), the goal it names and a body
GateRoutes ==
    { <<"getGoalsHandler", "GET", 0, NoBody>>,
      <<"GET_goal", "GET", 1, NoBody>>,
      <<"GET_goal", "HEAD", 1, NoBody>>,
      <<"createGoalHandler", "POST", 0, [NoBody EXCEPT !.title = Str("  Run 5k  ")]>>,
      <<"updateGoalHandler", "PUT", 1, [NoBody EXCEPT !.completedSteps = Num(8)]>>,
      <<"DELETE_goal", "DELETE", 2, NoBody>> }

GateRequests ==
    { GateRequest("c1", rt[1], rt[2], ck, hd, rt[3], rt[4]) :
        rt \in GateRoutes, ck \in GateCookies, hd \in GateHeaders }

GateLogins ==
    { Credentials("demo@example.com", "password"),
      Credentials("demo@example.com", "secret1") }

GateRegistrations == { Credentials("ann@example.com", "secret1") }

\* the client has attempts left in the current window
MayAttempt(c) ==
    CounterOf(requestCounts, getClientIP(AuthRequest(c, "", NoBody)), 0, now).count
        < MaxAttempts

Next ==
    \/ \E t \in Instants : Tick(t)
    \/ \E b \in GateLogins, n \in Nonces : MayAttempt("c1") /\ Login("c1", b, n)
    \/ \E b \in GateRegistrations : Register("c2", b)
    \/ \E r \in GateRequests : Receive(r)
    \/ VerifySession
    \/ ValidateCSRF
    \/ Dispatch
    \/ Complete

Spec == Init /\ [][Next]_vars

-----------------------------------------------------------------------------
(* Vocabulary of the properties of the gate *)

\* a request is being served by withAuth / withAuthOnly
AtGate == pc \in {"Unauthenticated", "Unauthorized", "SessionVerified",
                  "CSRFVerified", "CSRFRejected", "Handled"}

\* the gate has produced the response of the served request
Answered == pc \in {"Unauthorized", "CSRFRejected", "Handled"}

StateChanging == req.method \in {"POST", "PUT", "DELETE", "PATCH"}

SafeMethod == req.method \in {"GET", "HEAD"}

\* the stored users with id i
StoredWithId(i) == {users[k] : k \in {j \in 1..Len(users) : users[j].id = i}}

\* the session cookie is a session token the server signed, not yet expired
SessionTokenGood ==
    /\ req.cookie.key = "JWT_SECRET"
    /\ now \div 1000 < req.cookie.exp

\* the session cookie resolves to an existing user
SessionResolves == SessionTokenGood /\ StoredWithId(req.cookie.userId) # {}

\* the x-csrf-token header is an anti-forgery token the server signed, not
\* yet expired, bound to user id i
HeaderGoodFor(i) ==
    /\ req.header # NoToken
    /\ req.header.key = "CSRF_SECRET"
    /\ req.header.exp > now
    /\ req.header.userId = i

\* C1: a state-changing request through withAuth with a valid session for u
\* is answered 403 CSRF_INVALID, its handler never run, when the header is
\* absent, badly signed, expired or bound to another user; with a valid
\* header bound to u it goes on to the handler.
C1_CsrfDecides ==
    (AtGate /\ Wrapper(req.handler) = "withAuth" /\ StateChanging /\ SessionResolves)
    => IF HeaderGoodFor(req.cookie.userId)
       THEN /\ pc \notin {"Unauthorized", "CSRFRejected"}
            /\ Answered => pc = "Handled" /\ dispatched = 1
       ELSE /\ pc \notin {"Unauthorized", "CSRFVerified", "Handled"}
            /\ dispatched = 0
            /\ Answered => /\ pc = "CSRFRejected"
                           /\ resp.status = 403
                           /\ resp.code = "CSRF_INVALID"

\* C1 happens: a valid session, a header the server signed for another user,
\* still unexpired, rejected
C1_Witness ==
    /\ pc = "CSRFRejected" /\ StateChanging /\ SessionResolves
    /\ req.header.key = "CSRF_SECRET" /\ req.header.exp > now
    /\ req.header.userId # req.cookie.userId

\* C2: withAuth and withAuthOnly answer 401 and never run the handler when
\* the cookie is absent, the token fails signature or expiry, or its user id
\* is in no stored user.
C2_Unauthenticated401 ==
    (AtGate /\ ~SessionResolves)
    => /\ pc \in {"Unauthenticated", "Unauthorized"}
       /\ dispatched = 0
       /\ Answered => resp.status = 401 /\ resp.code = "UNAUTHORIZED"

\* C2 happens: a signed, unexpired token whose user is not in the store
C2_Witness ==
    /\ pc = "Unauthorized" /\ SessionTokenGood
    /\ StoredWithId(req.cookie.userId) = {}
    /\ resp.status = 401

\* the header of a state-changing request is missing, invalid, or does not
\* match the user id the session cookie names
HeaderBad == ~HeaderGoodFor(req.cookie.userId)

\* C3 as stated: such a request is answered 403 whether or not the session
\* is valid.
C3_Always403 ==
    (Answered /\ Wrapper(req.handler) = "withAuth" /\ StateChanging /\ HeaderBad)
    => resp.status = 403

\* C3 amended: with a bad header the handler never runs; the answer is 403
\* when the session resolves to a user and 401 when it does not.
C3_Amended ==
    (AtGate /\ Wrapper(req.handler) = "withAuth" /\ StateChanging /\ HeaderBad)
    => /\ dispatched = 0
       /\ pc # "Handled"
       /\ Answered => resp.status = IF SessionResolves THEN 403 ELSE 401

\* C3 happens: no header at all on a request with a valid session
C3_Witness ==
    /\ pc = "CSRFRejected" /\ StateChanging /\ SessionResolves
    /\ req.header = NoToken /\ resp.status = 403

\* C4: a GET or HEAD request with a valid session is never asked for an
\* anti-forgery header: whatever the header, the handler runs.
C4_SafeMethodsSkipCsrf ==
    (AtGate /\ SafeMethod /\ SessionResolves)
    => /\ pc \notin {"Unauthorized", "CSRFRejected"}
       /\ Answered => pc = "Handled" /\ dispatched = 1

\* C4 happens: through withAuth, carrying a header bound to another user
C4_Witness ==
    /\ pc = "Handled" /\ SafeMethod /\ Wrapper(req.handler) = "withAuth"
    /\ req.header.key = "CSRF_SECRET" /\ req.header.userId # req.cookie.userId

\* the steps a request takes through the gate, and an auth endpoint's one step
GateOrder ==
    {<<"idle", "Unauthenticated">>,
     <<"Unauthenticated", "Unauthorized">>,
     <<"Unauthenticated", "SessionVerified">>,
     <<"SessionVerified", "CSRFVerified">>,
     <<"SessionVerified", "CSRFRejected">>,
     <<"SessionVerified", "Handled">>,
     <<"CSRFVerified", "Handled">>,
     <<"Unauthorized", "idle">>,
     <<"CSRFRejected", "idle">>,
     <<"Handled", "idle">>,
     <<"idle", "Responded">>,
     <<"Responded", "idle">>}

C5_Step ==
    /\ dispatched' <= 1
    /\ pc' # pc => <<pc, pc'>> \in GateOrder
    /\ <<pc, pc'>> = <<"SessionVerified", "Handled">> => ~StateChanging
    /\ dispatched' > dispatched => pc' \in {"Handled", "Responded"}
    /\ (dispatched' > dispatched /\ pc # "idle") =>
        /\ pc' = "Handled"
        /\ dispatched = 0
        /\ pc \in {"SessionVerified", "CSRFVerified"}
        /\ SessionResolves
        /\ StateChanging => pc = "CSRFVerified" /\ HeaderGoodFor(req.cookie.userId)
        /\ req'.user = req.user
        /\ req.user \in StoredWithId(req.cookie.userId)
    /\ pc' = "Handled" => dispatched' = 1

\* C5: a request moves Unauthenticated -> SessionVerified -> (CSRFVerified |
\* CSRFRejected) -> Handled; its handler is dispatched at most once, only
\* after the session was verified and, for a state-changing method, the
\* anti-forgery check passed; the user handed to the handler is the stored
\* user whose id the session token names.
C5_DispatchOnceAfterChecks == [][C5_Step]_vars

\* C5 happens: a state-changing request has reached its handler
C5_Witness ==
    /\ pc = "Handled" /\ StateChanging /\ dispatched = 1
    /\ req.isCSRFValidated
    /\ req.user \in StoredWithId(req.cookie.userId)

\* the request carries the cookie pair client c got from its last login
CarriesLoginPair(c) ==
    /\ jar[c].via = "login"
    /\ req.cookie = jar[c].auth
    /\ req.header = jar[c].csrf

\* C6: after a successful login of u, a state-changing request carrying that
\* login's session cookie and anti-forgery token is accepted, its handler
\* dispatched with u, as long as neither token has expired.
C6_LoginPairAccepted ==
    \A c \in Clients :
        (/\ AtGate /\ Wrapper(req.handler) = "withAuth" /\ StateChanging
         /\ CarriesLoginPair(c)
         /\ now \div 1000 < jar[c].auth.exp
         /\ now < jar[c].csrf.exp)
        => /\ pc \notin {"Unauthorized", "CSRFRejected"}
           /\ Answered => /\ pc = "Handled"
                          /\ dispatched = 1
                          /\ req.user.id = jar[c].auth.userId
                          /\ req.user \in StoredWithId(jar[c].auth.userId)

\* C6 happens: the pair is used some time after the login
C6_Witness ==
    /\ pc = "Handled" /\ StateChanging /\ CarriesLoginPair("c1")
    /\ now > StartTime
    /\ now \div 1000 > jar["c1"].auth.iat

\* C7: a session token issued at t is answered 401 on every request after
\* t + 3 days; no served request extends it or hands out a new token.
C7_AbsoluteExpiry ==
    /\ (AtGate /\ req.cookie.key = "JWT_SECRET"
               /\ now > req.cookie.iat * 1000 + SESSION_TTL_S * 1000)
        => /\ pc \in {"Unauthenticated", "Unauthorized"}
           /\ dispatched = 0
           /\ Answered => resp.status = 401
    /\ pc \in {"SessionVerified", "CSRFVerified", "CSRFRejected", "Handled"}
        => now < (req.cookie.iat + SESSION_TTL_S) * 1000
    /\ Answered => /\ resp.cookieAuth = NoToken
                   /\ resp.cookieCsrf = NoToken
                   /\ resp.token = NoToken
                   /\ resp.csrfToken = NoToken

\* C7 happens: the token of a stored user, issued by a login, is turned away
\* once three days have passed
C7_Witness ==
    /\ pc = "Unauthorized" /\ req.cookie.key = "JWT_SECRET"
    /\ jar["c1"].via = "login" /\ req.cookie = jar["c1"].auth
    /\ StoredWithId(req.cookie.userId) # {}
    /\ now > req.cookie.iat * 1000 + SESSION_TTL_S * 1000
    /\ resp.status = 401

-----------------------------------------------------------------------------
(* Two signed-in browsers working on goals: c1 is the seeded demo user, c2 *)
(* registers a second account and signs in to it.  Every request carries   *)
(* the cookie pair of the client's login.  The requests follow each other  *)
(* within one reading of the clock.                                        *)

CredentialsOf(c) ==
    IF c = "c1"
    THEN Credentials("demo@example.com", "password")
    ELSE Credentials("ann@example.com", "secret1")

\* bodies of POST /api/goals
CreateBodies ==
    { [NoBody EXCEPT !.title = Str("  Run 5k  "), !.totalSteps = Num(10)],
      [NoBody EXCEPT !.title = Str("  Run 5k  "), !.totalSteps = Num(0)] }

\* bodies of PUT /api/goals/[id]
UpdateBodies ==
    { [NoBody EXCEPT !.completedSteps = Num(20), !.totalSteps = Num(10)],
      [NoBody EXCEPT !.totalSteps = Num(5)],
      [NoBody EXCEPT !.totalSteps = Num(400)],
      [NoBody EXCEPT !.syntaxError = TRUE] }

\* the goals requests name: the first seeded one, the ones created since
\* the start, and an id no goal has
GoalTargets ==
    {1, 7} \cup {goals[i].id : i \in {j \in 1..Len(goals) : goals[j].id >= StartTime}}

GoalsRoutes ==
    { <<"createGoalHandler", "POST", 0, b>> : b \in CreateBodies }
    \cup { <<h, "PUT", g, b>> :
            h \in {"PUT_goal", "updateGoalHandler"}, g \in GoalTargets, b \in UpdateBodies }
    \cup { <<h, "DELETE", g, NoBody>> :
            h \in {"DELETE_goal", "deleteGoalHandler"}, g \in GoalTargets }

GoalsRequests ==
    { GateRequest(c, rt[1], rt[2], jar[c].auth, jar[c].csrf, rt[3], rt[4]) :
        c \in {d \in Clients : jar[d].via = "login"}, rt \in GoalsRoutes }

NextGoals ==
    \/ \E c \in Clients, n \in Nonces :
            /\ jar[c].via # "login"
            /\ MayAttempt(c)
            /\ Login(c, CredentialsOf(c), n)
    \/ Register("c2", CredentialsOf("c2"))
    \/ \E r \in GoalsRequests : Receive(r)
    \/ VerifySession
    \/ ValidateCSRF
    \/ Dispatch
    \/ Complete

SpecGoals == Init /\ [][NextGoals]_vars

\* C8: after any sequence of goal create and update requests every stored
\* goal has 0 <= completedSteps <= totalSteps, also after a PUT that
\* supplies completedSteps and totalSteps in one body.
C8_CompletedWithinTotal ==
    \A i \in 1..Len(goals) :
        /\ goals[i].completedSteps.t = "number"
        /\ goals[i].totalSteps.t = "number"
        /\ ~LessThan(goals[i].completedSteps, 0)
        /\ ~Greater(goals[i].completedSteps, goals[i].totalSteps)

\* the stored goals with id i
GoalsWithId(i) == {goals[k] : k \in {j \in 1..Len(goals) : goals[j].id = i}}

\* the handler of a PUT or DELETE on a goal that exists and that the
\* request's user does not own is about to answer
NonOwnerAnswered ==
    /\ pc # "Handled" /\ pc' = "Handled"
    /\ req.method \in {"PUT", "DELETE"}
    /\ GoalsWithId(req.goalId) # {}
    /\ \A g \in GoalsWithId(req.goalId) : g.userId # req.user.id

\* C9: a PUT or DELETE of a goal by an authenticated user who does not own
\* it is answered 403 or 404, the body carries none of the goal's data, and
\* the goal stays in the store unchanged.
C9_NonOwnerRefused ==
    [][NonOwnerAnswered =>
        /\ resp'.status \in {403, 404}
        /\ resp' = ErrorResponse(resp'.status, resp'.code, resp'.error)
        /\ resp'.error \in {"Goal not found",
                            "Access denied. You can only update your own goals.",
                            "Access denied. You can only delete your own goals."}
        /\ goals' = goals]_vars

-----------------------------------------------------------------------------
(* Password resets, registrations and logins, with the rate limiter's      *)
(* windows running out in between.                                         *)

ResetInstants == {StartTime + LOGIN_WINDOW_MS + 1, StartTime + RESET_WINDOW_MS + 1}

\* the addresses a reset is asked for: the seeded account as stored and in
\* another spelling, the account c2 registers, and one nobody has
ResetEmails ==
    {"demo@example.com", "Demo@Example.com", "ann@example.com", "ghost@example.com"}

\* reset requests that pass every check on their form
ValidResetBodies == {ResetBody(e, "hunter2") : e \in ResetEmails}

ResetBodies ==
    ValidResetBodies \cup {ResetBody("demo@example.com", "ab1"),
                           [NoBody EXCEPT !.newPassword = Str("hunter2")]}

ResetLogins ==
    { Credentials("demo@example.com", "password"),
      Credentials("demo@example.com", "hunter2") }

NextReset ==
    \/ \E t \in ResetInstants : Tick(t)
    \/ \E b \in ResetBodies : ResetPassword("c1", b)
    \/ \E b \in ResetBodies : ResetPasswordPlain("c1", b)
    \/ Register("c2", CredentialsOf("c2"))
    \/ \E b \in ResetLogins, n \in Nonces : Login("c1", b, n)
    \/ Complete

SpecReset == Init /\ [][NextReset]_vars

\* the email belongs to a registered user, as the route that serves the
\* request compares it
Registered(handler, email) ==
    \E i \in 1..Len(users) :
        users[i].email = IF handler = "resetPasswordHandler"
                         THEN Trim(ToLowerCase(email)) ELSE email

\* what the route that served the request answers to body b
ResetAnswer(handler, b) ==
    IF handler = "resetPasswordHandler"
    THEN resetPasswordHandler(b, users, now).resp
    ELSE POST_resetPassword(b, users, now).resp

\* C10: two otherwise valid reset requests that differ only in whether the
\* email belongs to a registered user get the same status and the same
\* whole body, code field included.
C10_UniformResetResponse ==
    (/\ pc = "Responded"
     /\ req.handler \in {"resetPasswordHandler", "POST_resetPassword"}
     /\ dispatched = 1
     /\ req.body \in ValidResetBodies)
    => \A e \in ResetEmails :
        Registered(req.handler, e) # Registered(req.handler, req.body.email.s)
        => ResetAnswer(req.handler, [req.body EXCEPT !.email = Str(e)]) = resp

-----------------------------------------------------------------------------
(* Logins alone: right and wrong passwords and an unknown address, from    *)
(* both clients, around the end of the limiter's window.                   *)

\* requests one address is followed for
MaxCount == 7

LoginInstants ==
    {StartTime + LOGIN_WINDOW_MS + d : d \in {0 - 1, 0, 1}}

LoginBodies ==
    { Credentials("demo@example.com", "password"),
      Credentials("demo@example.com", "secret1"),
      Credentials("Demo@Example.com", "password"),
      Credentials("ghost@example.com", "password") }

\* the address the requests of client c are counted under
SourceOf(c) == getClientIP(AuthRequest(c, "", NoBody))

NextLogin ==
    \/ \E t \in LoginInstants : Tick(t)
    \/ \E c \in Clients, b \in LoginBodies, n \in Nonces :
            /\ requestCounts[SourceOf(c)].count < MaxCount
            /\ Login(c, b, n)
    \/ Complete

SpecLogin == Init /\ [][NextLogin]_vars

\* a login request is taken up in this step
LoginArrives == pc = "idle" /\ pc' = "Responded" /\ req'.handler = "loginHandler"

\* the entry of the request's address holds n or more requests of a window
\* that is still running
CountedInWindow(n) ==
    /\ requestCounts[SourceOf(req'.client)].count >= n
    /\ requestCounts[SourceOf(req'.client)].resetTime > now

\* C11: every login attempt that is let through is counted under its source
\* address, and once 5 attempts are counted in a running 5-minute window
\* the next one from that address is answered 429 RATE_LIMIT_EXCEEDED
\* without the login handler being run.
C11_SixthLoginLimited ==
    [][LoginArrives =>
        /\ CountedInWindow(LOGIN_MAX_REQUESTS) =>
            /\ resp'.status = 429
            /\ resp'.code = "RATE_LIMIT_EXCEEDED"
            /\ dispatched' = 0
            /\ resp'.cookieAuth = NoToken
        /\ dispatched' = 1 =>
            requestCounts'[SourceOf(req'.client)].count =
                IF CountedInWindow(1)
                   \/ requestCounts[SourceOf(req'.client)].resetTime = now
                THEN requestCounts[SourceOf(req'.client)].count + 1
                ELSE 1]_vars

\* C11 happens: client c1, none of whose logins succeeded, is turned away
\* with exactly 5 attempts counted, the right password in hand
C11_Witness ==
    /\ pc = "Responded" /\ req.handler = "loginHandler" /\ req.client = "c1"
    /\ resp.status = 429
    /\ jar["c1"].via = "none"
    /\ requestCounts[SourceOf("c1")].count = LOGIN_MAX_REQUESTS
    /\ requestCounts[SourceOf("c1")].resetTime > now
    /\ req.body = Credentials("demo@example.com", "password")

\* the cookies a response sets are a session token and an anti-forgery
\* token the server signed for user id i
SetsCookiePairFor(i) ==
    /\ resp.cookieAuth # NoToken
    /\ resp.cookieAuth.key = "JWT_SECRET"
    /\ resp.cookieAuth.userId = i
    /\ resp.cookieCsrf # NoToken
    /\ resp.cookieCsrf.key = "CSRF_SECRET"
    /\ resp.cookieCsrf.userId = i

\* a request carrying the cookies the response sets, the anti-forgery one
\* copied to the header, would pass the gate on a state-changing route
CookiesPassGate ==
    LET r == GateRequest(req.client, "createGoalHandler", "POST",
                         resp.cookieAuth, resp.cookieCsrf, 0, NoBody)
    IN  /\ SessionResponse(r, users, now) = NoResp
        /\ csrfMiddleware_validate(r, resp.userId, now) = NoResp

\* C12: a successful registration answers 201 with the user and an
\* anti-forgery token and sets the session and anti-forgery cookies, so the
\* new user's next request, carrying them, passes the gate without a login.
C12_RegisterSignsIn ==
    (pc = "Responded" /\ req.handler = "POST_register" /\ resp.status = 201)
    => /\ resp.userId # 0
       /\ StoredWithId(resp.userId) # {}
       /\ resp.csrfToken # NoToken
       /\ SetsCookiePairFor(resp.userId)
       /\ CookiesPassGate

\* the stored users a login with the request's email is about
UsersLoggingIn ==
    {users[k] : k \in {j \in 1..Len(users) :
                        users[j].email = Trim(ToLowerCase(req.body.email.s))}}

\* C13: a login with the correct password of an existing user u answers 200
\* and sets a session cookie and an anti-forgery cookie both bound to u's
\* id; with an unknown email or a wrong password it answers 401 and sets
\* neither cookie.
C13_LoginContract ==
    (/\ pc = "Responded" /\ req.handler = "loginHandler" /\ dispatched = 1
     /\ req.body \in LoginBodies)
    => IF \E u \in UsersLoggingIn : u.password = hashPassword(req.body.password.s)
       THEN /\ resp.status = 200
            /\ \E u \in UsersLoggingIn :
                    /\ resp.userId = u.id
                    /\ SetsCookiePairFor(u.id)
            /\ resp.csrfToken = resp.cookieCsrf
            /\ resp.cookieAuth.exp = resp.cookieAuth.iat + SESSION_TTL_S
       ELSE /\ resp.status = 401
            /\ resp.cookieAuth = NoToken
            /\ resp.cookieCsrf = NoToken
            /\ resp.csrfToken = NoToken
            /\ resp.token = NoToken

\* C13 happens: the seeded user signs in, the address typed in capitals
C13_Witness ==
    /\ pc = "Responded" /\ req.handler = "loginHandler"
    /\ req.body = Credentials("Demo@Example.com", "password")
    /\ resp.status = 200
    /\ SetsCookiePairFor(users[1].id)

-----------------------------------------------------------------------------
(* Registrations from both clients, several of them at one reading of the  *)
(* clock, and password resets of the accounts they make.                   *)

RegisterInstants == {StartTime + 1}

RegisterBodies ==
    { Credentials("ann@example.com", "secret1"),
      Credentials("Ann@Example.com", "secret1"),
      Credentials("Demo@Example.com", "secret1"),
      Credentials("ghost@example.com", "secret1") }

NextRegister ==
    \/ \E t \in RegisterInstants : Tick(t)
    \/ \E c \in Clients, b \in RegisterBodies : Register(c, b)
    \/ \E b \in {ResetBody("demo@example.com", "hunter2"),
                 ResetBody("ann@example.com", "hunter2")} :
            /\ requestCounts[SourceOf("c1")].count < RESET_MAX_REQUESTS
            /\ ResetPassword("c1", b)
    \/ Complete

SpecRegister == Init /\ [][NextRegister]_vars

\* C14: after any sequence of registrations every stored email is in its
\* lower-cased, trimmed form, and no two users have emails that are equal
\* once case is normalized.
C14_EmailsNormalizedUnique ==
    /\ \A i \in 1..Len(users) : users[i].email = Trim(ToLowerCase(users[i].email))
    /\ \A i, j \in 1..Len(users) :
        i # j => ToLowerCase(users[i].email) # ToLowerCase(users[j].email)

\* C15: no two users share an id and no user's id ever changes, whatever
\* registrations and password resets are handled, registrations at one
\* clock reading included; a token's subject names at most one user.
C15_UserIdsUniqueStable ==
    [][/\ \A i \in 1..Len(users) :
            i <= Len(users') /\ users'[i].id = users[i].id
       /\ \A i, j \in 1..Len(users') : i # j => users'[i].id # users'[j].id]_vars

\* C16: no two goals in the store have the same id, whatever creates,
\* updates and deletes are handled, creates at one clock reading and the
\* seeded goals included.
C16_GoalIdsUnique ==
    \A i, j \in 1..Len(goals) : i # j => goals[i].id # goals[j].id

\* the handler of a PUT by the owner of an existing goal is about to answer
OwnerPutAnswered ==
    /\ pc # "Handled" /\ pc' = "Handled"
    /\ req.method = "PUT"
    /\ IndexById(goals, req.goalId) # 0
    /\ goals[IndexById(goals, req.goalId)].userId = req.user.id

TotalInRange(v) == v.t = "number" /\ ~LessThan(v, 1) /\ ~GreaterThan(v, 365)

\* C18: every stored goal has totalSteps in 1..365, and a create or update
\* whose totalSteps is outside that range is answered 400 and stores
\* nothing.
C18_TotalStepsInRange ==
    [][/\ \A i \in 1..Len(goals') : TotalInRange(goals'[i].totalSteps)
       /\ (/\ pc # "Handled" /\ pc' = "Handled"
           /\ req.method \in {"POST", "PUT"}
           /\ req.method = "PUT" => OwnerPutAnswered
           /\ ~req.body.syntaxError
           /\ req.body.totalSteps # Undef
           /\ ~TotalInRange(req.body.totalSteps))
          => resp'.status = 400 /\ goals' = goals]_vars

-----------------------------------------------------------------------------
(* Two signed-in users changing goals, their own and each other's, with    *)
(* their own anti-forgery token, the other user's, or none, and without    *)
(* the session cookie.                                                     *)

OtherClient(c) == IF c = "c1" THEN "c2" ELSE "c1"

\* the <<cookie, header>> pairs client c sends
OwnersTokens(c) ==
    { <<jar[c].auth, jar[c].csrf>>,
      <<jar[c].auth, jar[OtherClient(c)].csrf>>,
      <<jar[c].auth, NoToken>>,
      <<NoToken, jar[c].csrf>> }

\* the goals requests name: the first seeded one and the ones created since
OwnersTargets ==
    {1} \cup {goals[i].id : i \in {j \in 1..Len(goals) : goals[j].id >= StartTime}}

OwnersRoutes ==
    { <<"createGoalHandler", "POST", 0,
        [NoBody EXCEPT !.title = Str("  Run 5k  "), !.totalSteps = Num(10)]>> }
    \cup { <<h, "PUT", g, [NoBody EXCEPT !.completedSteps = Num(5)]>> :
            h \in {"PUT_goal", "updateGoalHandler"}, g \in OwnersTargets }
    \cup { <<h, "DELETE", g, NoBody>> :
            h \in {"DELETE_goal", "deleteGoalHandler"}, g \in OwnersTargets }

OwnersRequests ==
    { GateRequest(c, rt[1], rt[2], tk[1], tk[2], rt[3], rt[4]) :
        c \in {d \in Clients : jar[d].via = "login"},
        rt \in OwnersRoutes,
        tk \in UNION {OwnersTokens(d) : d \in {e \in Clients : jar[e].via = "login"}} }

NextOwners ==
    \/ \E c \in Clients, n \in Nonces :
            /\ jar[c].via # "login"
            /\ MayAttempt(c)
            /\ Login(c, CredentialsOf(c), n)
    \/ Register("c2", CredentialsOf("c2"))
    \/ \E r \in OwnersRequests : Receive(r)
    \/ VerifySession
    \/ ValidateCSRF
    \/ Dispatch
    \/ Complete

SpecOwners == Init /\ [][NextOwners]_vars

\* the store differs from before in goals of user id u only: one goal of u
\* appended, one goal of u removed, or goals of u replaced by goals of u
OnlyGoalsOfChange(u) ==
    \/ /\ Len(goals') = Len(goals) + 1
       /\ SubSeq(goals', 1, Len(goals)) = goals
       /\ goals'[Len(goals')].userId = u
    \/ /\ Len(goals') = Len(goals) - 1
       /\ \E k \in 1..Len(goals) :
            /\ goals[k].userId = u
            /\ goals' = SubSeq(goals, 1, k - 1) \o SubSeq(goals, k + 1, Len(goals))
    \/ /\ Len(goals') = Len(goals)
       /\ \A k \in 1..Len(goals) :
            goals'[k] # goals[k] => goals[k].userId = u /\ goals'[k].userId = u

-----------------------------------------------------------------------------
(* Concurrent updates of one goal.  The demo user sends PUTs that each     *)
(* supply one of the two counts; a handler may wait for its body while     *)
(* the server serves the next request.                                     *)

RaceBodies ==
    { [NoBody EXCEPT !.totalSteps = Num(5)],
      [NoBody EXCEPT !.completedSteps = Num(20)],
      [NoBody EXCEPT !.completedSteps = Num(3)] }

RaceRequests ==
    { GateRequest("c1", "updateGoalHandler", "PUT", jar["c1"].auth, jar["c1"].csrf,
                  1, b) : b \in RaceBodies }

NextRace ==
    \/ \E n \in Nonces :
            /\ jar["c1"].via # "login"
            /\ Login("c1", CredentialsOf("c1"), n)
    \/ \E r \in RaceRequests : jar["c1"].via = "login" /\ Receive(r)
    \/ VerifySession
    \/ ValidateCSRF
    \/ Dispatch
    \/ Suspend
    \/ \E p \in pending : Resume(p)
    \/ Complete

SpecRace == Init /\ [][NextRace]_vars

\* C20: with two PUTs on one goal in flight, one lowering totalSteps and
\* one raising completedSteps, both having read the goal before either
\* writes, every stored goal has 0 <= completedSteps <= totalSteps once
\* both have been answered.
C20_ConcurrentPutsWithinTotal ==
    pending = {} /\ pc = "idle" =>
    \A g \in {goals[i] : i \in 1..Len(goals)} :
        /\ IsInteger(g.completedSteps) /\ IsInteger(g.totalSteps)
        /\ ~LessThan(g.completedSteps, 0)
        /\ ~Greater(g.completedSteps, g.totalSteps)

-----------------------------------------------------------------------------
(* Concurrent registrations.  Two clients register, with the same email    *)
(* or different ones; a registration may wait for its password hash while  *)
(* the server serves the next request.                                     *)

RaceRegistrations ==
    { Credentials("ann@example.com", "secret1"),
      Credentials("bea@example.com", "secret1"),
      Credentials("demo@example.com", "secret1") }

NextRegisterRace ==
    \/ \E t \in RegisterInstants : Tick(t)
    \/ \E c \in Clients, b \in RaceRegistrations : Register(c, b)
    \/ \E c \in Clients, b \in RaceRegistrations : RegisterSuspend(c, b)
    \/ \E p \in pending : RegisterResume(p)
    \/ Complete

SpecRegisterRace == Init /\ [][NextRegisterRace]_vars

\* C21: with two registrations for one email in flight at once, both
\* having looked the email up before either inserts, at most one user
\* record with that email exists once both have been answered.
C21_ConcurrentRegisterUnique ==
    pending = {} =>
        \A i, j \in 1..Len(users) : i # j => users[i].email # users[j].email

-----------------------------------------------------------------------------
(* Updates that are refused.  Two signed-in users send PUTs for the first  *)
(* seeded goal and for a goal that does not exist, with bodies in which a  *)
(* valid title comes with a count that is or is not acceptable.            *)

RefusedBodies ==
    { [NoBody EXCEPT !.title = Str("Walk"), !.totalSteps = Num(400)],
      [NoBody EXCEPT !.title = Str("Walk"), !.completedSteps = Num(40)],
      [NoBody EXCEPT !.title = Str("Walk"), !.completedSteps = Num(5)] }

RefusedRequests ==
    { GateRequest(c, h, "PUT", jar[c].auth, jar[c].csrf, g, b) :
        c \in {d \in Clients : jar[d].via = "login"},
        h \in {"PUT_goal", "updateGoalHandler"},
        g \in {1, 7},
        b \in RefusedBodies }

NextRefused ==
    \/ \E c \in Clients, n \in Nonces :
            /\ jar[c].via # "login"
            /\ MayAttempt(c)
            /\ Login(c, CredentialsOf(c), n)
    \/ Register("c2", CredentialsOf("c2"))
    \/ \E r \in RefusedRequests : Receive(r)
    \/ VerifySession
    \/ ValidateCSRF
    \/ Dispatch
    \/ Complete

SpecRefused == Init /\ [][NextRefused]_vars

\* C22: a step that answers a PUT with 400, 403 or 404 leaves the goals
\* collection as it was, every field of every goal, also when the body
\* held valid fields besides the one refused.
C22_RefusedUpdateChangesNothing ==
    [][(/\ req'.method = "PUT"
        /\ resp' # resp
        /\ resp'.status \in {400, 403, 404}) => goals' = goals]_vars

\* C22 happens: an owner's update with a valid title and a refused count
\* has been answered 400, and the goal keeps the title it had
C22_Witness ==
    /\ pc = "Handled" /\ req.method = "PUT" /\ resp.status = 400
    /\ req.body.title = Str("Walk")
    /\ getGoalById(goals, req.goalId).userId = req.user.id
    /\ getGoalById(goals, req.goalId).title # Str("Walk")

-----------------------------------------------------------------------------
(* One source address at the login limiter, before, at and after the end   *)
(* of its window.  Time goes on and the client keeps trying.               *)

WindowBodies ==
    { Credentials("demo@example.com", "password"),
      Credentials("demo@example.com", "secret1") }

WindowLogin ==
    \E b \in WindowBodies, n \in Nonces :
        /\ requestCounts[SourceOf("c1")].count < MaxCount
        /\ Login("c1", b, n)

NextWindow ==
    \/ \E t \in LoginInstants : Tick(t)
    \/ WindowLogin
    \/ Complete

SpecWindow ==
    /\ Init /\ [][NextWindow]_vars
    /\ SF_vars(\E t \in LoginInstants : Tick(t))
    /\ WF_vars(WindowLogin)
    /\ WF_vars(Complete)

\* the limiter's entry for the address of the request taken up, before and
\* after the step
WindowBefore == requestCounts[SourceOf(req'.client)]
WindowAfter == requestCounts'[SourceOf(req'.client)]

\* what the limiter does with a login request
WindowStep ==
    IF WindowBefore # NoCounter /\ WindowBefore.resetTime >= now
    THEN \* a window is running: its end stays where it is
         /\ WindowAfter.resetTime = WindowBefore.resetTime
         /\ resp'.status = 429 <=>
                /\ WindowBefore.count >= LOGIN_MAX_REQUESTS
                /\ WindowBefore.resetTime > now
         /\ IF resp'.status = 429
            THEN dispatched' = 0 /\ WindowAfter = WindowBefore
            ELSE dispatched' = 1 /\ WindowAfter.count = WindowBefore.count + 1
    ELSE \* no window, or its reset time has passed: first of a new window
         /\ resp'.status # 429
         /\ dispatched' = 1
         /\ WindowAfter = [count |-> 1, resetTime |-> now + LOGIN_WINDOW_MS]

\* the address of c1 is refused, in a window that ends within the time
\* the model follows
WindowBlocked ==
    /\ requestCounts[SourceOf("c1")].count >= LOGIN_MAX_REQUESTS
    /\ requestCounts[SourceOf("c1")].resetTime > now
    /\ \E t \in LoginInstants : t >= requestCounts[SourceOf("c1")].resetTime

\* a login of c1 has been let through to the handler
WindowAdmitted ==
    /\ pc = "Responded" /\ req.handler = "loginHandler" /\ req.client = "c1"
    /\ resp.status # 429 /\ dispatched = 1

\* C23: the limiter keeps one fixed window per source address: the end of
\* a running window is never moved, a refused request runs no handler and
\* is not counted, the first request after the reset time has passed is
\* let through and counted as the first of a new window, and a refused
\* source that keeps trying is let through again.
C23_FixedWindow ==
    /\ [][LoginArrives => WindowStep]_vars
    /\ WindowBlocked ~> WindowAdmitted

\* C23 happens: a request late in the window is refused and not counted,
\* the window ending where its first request put it
C23_Witness ==
    /\ pc = "Responded" /\ resp.status = 429 /\ dispatched = 0
    /\ now = StartTime + LOGIN_WINDOW_MS - 1
    /\ requestCounts[SourceOf("c1")] =
            [count |-> LOGIN_MAX_REQUESTS, resetTime |-> StartTime + LOGIN_WINDOW_MS]

-----------------------------------------------------------------------------
(* The budgets of the two rate-limited endpoints *)

\* the login attempts the limiter would still let through from an address
LoginBudget(counts, clientIP, t) ==
    IF RateLimited(counts, clientIP, LOGIN_MAX_REQUESTS, LOGIN_WINDOW_MS, t)
    THEN 0
    ELSE LOGIN_MAX_REQUESTS - CounterOf(counts, clientIP, LOGIN_WINDOW_MS, t).count

\* C24: a request to POST /api/auth/reset-password leaves the login budget
\* of its source address as it was.
C24_ResetLeavesLoginBudget ==
    [][(pc = "idle" /\ pc' = "Responded" /\ req'.handler = "resetPasswordHandler") =>
        LoginBudget(requestCounts', SourceOf(req'.client), now) =
            LoginBudget(requestCounts, SourceOf(req'.client), now)]_vars

-----------------------------------------------------------------------------
(* Updates whose body names the fields a client is not to set.  The demo   *)
(* user sends PUTs for the two seeded goals with an id, an owner or a      *)
(* creation time in the body, alone or next to a title.                    *)

FrameBodies ==
    { [NoBody EXCEPT !.id = 9],
      [NoBody EXCEPT !.userId = 7],
      [NoBody EXCEPT !.createdAt = 5],
      [NoBody EXCEPT !.title = Str("Walk"), !.id = 9, !.userId = 7, !.createdAt = 5] }

FrameRequests ==
    { GateRequest("c1", h, "PUT", jar["c1"].auth, jar["c1"].csrf, g, b) :
        h \in {"PUT_goal", "updateGoalHandler"},
        g \in {1, 2},
        b \in FrameBodies }

NextFrame ==
    \/ \E n \in Nonces :
            /\ jar["c1"].via # "login"
            /\ Login("c1", CredentialsOf("c1"), n)
    \/ \E r \in FrameRequests : jar["c1"].via = "login" /\ Receive(r)
    \/ VerifySession
    \/ ValidateCSRF
    \/ Dispatch
    \/ Complete

SpecFrame == Init /\ [][NextFrame]_vars

-----------------------------------------------------------------------------
(* Creating and listing goals.  Two signed-in users create goals, with     *)
(* bodies that also name an owner, an id and a completed count, and list   *)
(* their goals.                                                            *)

CreatedBodies ==
    { [NoBody EXCEPT !.title = Str("  Run 5k  "), !.totalSteps = Num(10)] }
    \cup { [NoBody EXCEPT !.title = Str("Swim"), !.totalSteps = Num(10),
                          !.userId = u, !.id = 7, !.completedSteps = Num(5)] :
            u \in {1, StartTime} }

CreatedRequests ==
    { GateRequest(c, "createGoalHandler", "POST", jar[c].auth, jar[c].csrf, 0, b) :
        c \in {d \in Clients : jar[d].via = "login"}, b \in CreatedBodies }
    \cup { GateRequest(c, "getGoalsHandler", "GET", jar[c].auth, NoToken, 0, NoBody) :
        c \in {d \in Clients : jar[d].via = "login"} }

NextCreated ==
    \/ \E c \in Clients, n \in Nonces :
            /\ jar[c].via # "login"
            /\ MayAttempt(c)
            /\ Login(c, CredentialsOf(c), n)
    \/ Register("c2", CredentialsOf("c2"))
    \/ \E r \in CreatedRequests : Receive(r)
    \/ VerifySession
    \/ ValidateCSRF
    \/ Dispatch
    \/ Complete

SpecCreated == Init /\ [][NextCreated]_vars

\* the handler of the request answers in this step
HandlerAnswers(handler) ==
    pc # "Handled" /\ pc' = "Handled" /\ req'.handler = handler

\* C26: a goal created through POST /api/goals is stored with the id of
\* the user the session resolved to as its owner and with completedSteps
\* 0, whatever owner, id or completed count the body names; GET /api/goals
\* answers with the stored goals of the session's user and no others.
C26_CreatedGoalOwnedAndListed ==
    [][/\ (HandlerAnswers("createGoalHandler") /\ resp'.status = 201) =>
            /\ Len(goals') = Len(goals) + 1
            /\ SubSeq(goals', 1, Len(goals)) = goals
            /\ goals'[Len(goals')].userId = req'.user.id
            /\ req'.user.id = req'.cookie.userId
            /\ goals'[Len(goals')].completedSteps = Num(0)
            /\ goals'[Len(goals')].id = now
            /\ resp'.data = <<goals'[Len(goals')]>>
       /\ HandlerAnswers("getGoalsHandler") =>
            /\ resp'.status = 200
            /\ goals' = goals
            /\ \A k \in 1..Len(goals) :
                (\E j \in 1..Len(resp'.data) : resp'.data[j] = goals[k])
                    <=> goals[k].userId = req'.cookie.userId
            /\ \A j \in 1..Len(resp'.data) :
                \E k \in 1..Len(goals) : resp'.data[j] = goals[k]]_vars

\* C26 happens: the second user has created a goal with a body that names
\* the first user as owner, and the stored goal is the second user's
C26_Witness ==
    /\ pc = "Handled" /\ req.handler = "createGoalHandler" /\ resp.status = 201
    /\ req.body.userId = 1 /\ req.user.id # 1
    /\ goals[Len(goals)].userId = req.user.id
    /\ goals[Len(goals)].completedSteps = Num(0)

-----------------------------------------------------------------------------
(* Registering and then signing in with what was registered.  The second   *)
(* client registers accounts, spelt in lower case or not, and signs in     *)
(* with the same emails and passwords.                                     *)

RoundTripBodies ==
    { Credentials("ann@example.com", "secret1"),
      Credentials("Ann@Example.com", "secret1") }

NextRoundTrip ==
    \/ \E t \in RegisterInstants : Tick(t)
    \/ \E b \in RoundTripBodies : Register("c2", b)
    \/ \E b \in RoundTripBodies \cup {CredentialsOf("c1")}, n \in Nonces :
            /\ requestCounts[SourceOf("c2")].count < MaxAttempts
            /\ Login("c2", b, n)
    \/ Complete

SpecRoundTrip == Init /\ [][NextRoundTrip]_vars

\* the stored users that have the email and the password of body b, both
\* exactly as b spells them
UsersRegisteredAs(b) ==
    { users[i] : i \in { j \in 1..Len(users) :
                            /\ users[j].email = b.email.s
                            /\ users[j].password = hashPassword(b.password.s) } }

\* C27: a login with the email and password of a stored account, as they
\* were given when it was registered, is answered 200 and signs in as
\* that account.
C27_RegisterThenLogin ==
    (/\ pc = "Responded" /\ req.handler = "loginHandler"
     /\ resp.status # 429
     /\ UsersRegisteredAs(req.body) # {}) =>
        /\ resp.status = 200
        /\ \E u \in UsersRegisteredAs(req.body) :
            resp.userId = u.id /\ resp.cookieAuth.userId = u.id

-----------------------------------------------------------------------------
(* What a password reset changes *)

\* a request to POST /api/auth/reset-password is taken up in this step
ResetArrives ==
    pc = "idle" /\ pc' = "Responded" /\ req'.handler = "resetPasswordHandler"

\* the email a reset request is for, as the handler looks it up
ResetEmailOf(b) == Trim(ToLowerCase(b.email.s))

\* the answer a login with this email and password would get now
LoginAnswer(email, password, us) ==
    loginHandler(Credentials(email, password), us, "nonceA", now)

\* C28: a reset changes the password of no user but the one whose email it
\* names, a reset answered 400 changes nothing, and after a reset that is
\* answered 200 for a stored user a login with the new password signs that
\* user in while a login with the previous password is answered 401.
C28_ResetChangesOnlyThatPassword ==
    [][(ResetArrives /\ req'.body.email.t = "string") =>
        /\ Len(users') = Len(users)
        /\ \A i \in 1..Len(users) :
            users[i].email # ResetEmailOf(req'.body) => users'[i] = users[i]
        /\ resp'.status = 400 => users' = users
        /\ \A i \in 1..Len(users) :
            (/\ resp'.status = 200
             /\ users[i].email = ResetEmailOf(req'.body)
             /\ users[i].password # hashPassword(req'.body.newPassword.s)) =>
                /\ LoginAnswer(users[i].email, req'.body.newPassword.s, users').status = 200
                /\ LoginAnswer(users[i].email, req'.body.newPassword.s, users').userId
                        = users[i].id
                /\ LoginAnswer(users[i].email, users[i].password.of, users').status = 401]_vars

-----------------------------------------------------------------------------
(* What a failed login tells *)

\* a login body with a well-formed email that no stored user has
UnregisteredLogin(b) ==
    /\ b.email.t = "string" /\ EmailRegexTest(b.email.s)
    /\ b.password.t = "string"
    /\ \A i \in 1..Len(users) : users[i].email # Trim(ToLowerCase(b.email.s))

\* a login body with the email of a stored user and a password that is
\* not that user's
WrongPasswordLogin(b) ==
    /\ b.email.t = "string" /\ b.password.t = "string"
    /\ \E i \in 1..Len(users) : users[i].email = Trim(ToLowerCase(b.email.s))
    /\ \A i \in 1..Len(users) :
        users[i].email = Trim(ToLowerCase(b.email.s)) =>
            users[i].password # hashPassword(b.password.s)

\* C29: the response to a login with an unregistered, well-formed email is
\* 401 INVALID_CREDENTIALS and equals, field for field, the response any
\* login with a registered email and a wrong password gets in that state.
C29_LoginHidesRegistration ==
    (/\ pc = "Responded" /\ req.handler = "loginHandler" /\ dispatched = 1
     /\ UnregisteredLogin(req.body)) =>
        /\ resp.status = 401
        /\ resp.code = "INVALID_CREDENTIALS"
        /\ \A b \in LoginBodies :
            WrongPasswordLogin(b) => loginHandler(b, users, "nonceA", now) = resp

\* C29 happens: a login for an address nobody registered has been answered
\* while a registered address with a wrong password is there to compare
C29_Witness ==
    /\ pc = "Responded" /\ req.handler = "loginHandler" /\ dispatched = 1
    /\ UnregisteredLogin(req.body)
    /\ \E b \in LoginBodies : WrongPasswordLogin(b)
    /\ resp.status = 401

-----------------------------------------------------------------------------
(* Tokens issued earlier.  The first client signs in as the demo user once *)
(* and keeps its tokens; later the second client signs in as the same      *)
(* user, the password is reset, and time goes on to the tokens' expiry.    *)
(* State-changing requests carry either client's cookie and header.        *)

EarlierLogins ==
    { Credentials("demo@example.com", "password"),
      Credentials("demo@example.com", "hunter2") }

EarlierRequests ==
    { GateRequest("c1", "updateGoalHandler", "PUT", jar[c].auth, jar[d].csrf, 1,
                  [NoBody EXCEPT !.completedSteps = Num(5)]) :
        c \in {e \in Clients : jar[e].via = "login"},
        d \in {e \in Clients : jar[e].via = "login"} }

NextEarlier ==
    \/ \E t \in Instants : Tick(t)
    \/ \E n \in Nonces :
            /\ jar["c1"].via # "login"
            /\ Login("c1", CredentialsOf("c1"), n)
    \/ \E b \in EarlierLogins, n \in Nonces :
            /\ jar["c1"].via = "login"
            /\ MayAttempt("c2")
            /\ Login("c2", b, n)
    \/ /\ users[1].password = hashPassword("password")
       /\ ResetPassword("c1", ResetBody("demo@example.com", "hunter2"))
    \/ \E r \in EarlierRequests : Receive(r)
    \/ VerifySession
    \/ ValidateCSRF
    \/ Dispatch
    \/ Complete

SpecEarlier == Init /\ [][NextEarlier]_vars

\* the gate would let a state-changing request with the tokens client c
\* holds through, the users being us
HeldTokensPass(c, us) ==
    /\ verifyToken(jar[c].auth, now)
    /\ getUserById(us, jar[c].auth.userId) # NoUser
    /\ csrf_verifyToken(jar[c].csrf, jar[c].auth.userId, now)

\* C30: an anti-forgery token the server issued for a user passes the
\* check of every state-changing request of that user while its own expiry
\* is ahead, and a session token likewise; a login or a password reset
\* served in between changes nothing in what the tokens held before pass.
C30_TokensStateless ==
    [][/\ (/\ pc = "SessionVerified" /\ Wrapper(req.handler) = "withAuth"
           /\ StateChanging
           /\ HeaderGoodFor(req.user.id)) => pc' = "CSRFVerified"
       /\ (pc = "Unauthenticated" /\ SessionResolves) => pc' = "SessionVerified"
       /\ (pc = "idle" /\ pc' = "Responded") =>
            \A c \in Clients :
                (jar[c].via = "login" /\ HeldTokensPass(c, users))
                    => HeldTokensPass(c, users')]_vars

\* C30 happens: after a later login of the same user and a password reset,
\* a request with the anti-forgery token of the first login, a day and
\* more old, has passed the check
C30_Witness ==
    /\ pc = "CSRFVerified"
    /\ req.header = jar["c1"].csrf
    /\ jar["c2"].via = "login"
    /\ jar["c2"].csrf.userId = req.header.userId
    /\ jar["c2"].csrf.iat > req.header.iat
    /\ users[1].password = hashPassword("hunter2")
    /\ now > StartTime

====
